---- MODULE Spec2Model ----
(***************************************************************************)
(* A model of the coin-selection and commit/reveal construction code of    *)
(* satoshi-suite.                                                          *)
(*                                                                         *)
(*  crates/utxo-selection/src/lib.rs   strat_handler and its strategies    *)
(*  crates/wallet/src/builder.rs       build_commit_transaction            *)
(*  crates/wallet/src/wallet.rs        Wallet::inscribe_ordinal, etch_rune *)
(*                                                                         *)
(* Amounts are satoshi counts.  The code keeps them in u64; the model      *)
(* keeps them in AmountBits-bit unsigned integers, so that U64_MAX is the  *)
(* largest amount and every checked / panicking addition of the code       *)
(* overflows in the model exactly where the sum passes U64_MAX.            *)
(***************************************************************************)
EXTENDS Integers, Sequences, FiniteSets, TLC

VARIABLES
    op,     \* the operation being executed
    pc,     \* its position: "call" before it ran, "return" after, or a flow step
    input,  \* the parameters it was called with
    local,  \* the local variables of a flow that is under way
    ret,    \* what it returned: [kind |-> "Ok" | "Err" | "Panic", ...]
    node    \* the wallet/node collaborator: addresses issued, RPC calls served

vars == <<op, pc, input, local, ret, node>>

(***************************************************************************)
(* Bounds of the model.                                                    *)
(***************************************************************************)
AmountBits == 20
MaxUtxos == 4

U64_MAX == 2^AmountBits - 1

(***************************************************************************)
(* Results.                                                                *)
(***************************************************************************)
None == <<>>

Ok(v) == [kind |-> "Ok", val |-> v, err |-> "none"]

Err(e) == [kind |-> "Err", val |-> None, err |-> e]

\* bitcoin::Amount's Add / AddAssign: checked_add(..).expect(..), a panic.
Panic == [kind |-> "Panic", val |-> None, err |-> "Amount addition error"]

NotRun == [kind |-> "NotRun", val |-> None, err |-> "none"]

RECURSIVE SumAmounts(_)
SumAmounts(s) == IF s = <<>> THEN 0 ELSE Head(s).amount + SumAmounts(Tail(s))

contains(s, x) == \E i \in 1..Len(s) : s[i] = x

(***************************************************************************)
(* crates/utxo-selection/src/lib.rs                                        *)
(***************************************************************************)

\* `target_amount + fee_amount`, evaluated where the total is compared.
ThresholdNoFee(target_amount, fee_amount) == target_amount

Threshold(target_amount, fee_amount) == target_amount + fee_amount

\* select_utxos: the for loop from element i on.
RECURSIVE select_utxos_from(_, _, _, _, _, _)
select_utxos_from(sorted_utxos, i, selected_utxos, total_amount, target_amount, fee_amount) ==
    IF i > Len(sorted_utxos)
    THEN Err("InsufficientUTXOs")
    ELSE LET utxo == sorted_utxos[i]
             selected == Append(selected_utxos, utxo)
             total == total_amount + utxo.amount
         IN  IF total > U64_MAX
             THEN Panic                                       \* total_amount += utxo.amount
             ELSE IF target_amount + fee_amount > U64_MAX
             THEN Panic                                       \* target_amount + fee_amount
             ELSE IF total >= Threshold(target_amount, fee_amount)
             THEN Ok(selected)
             ELSE select_utxos_from(sorted_utxos, i + 1, selected, total,
                                    target_amount, fee_amount)

\* The for loop going through the list a second time when one pass over it does
\* not reach the total.
select_utxos_cycling(sorted_utxos, target_amount, fee_amount) ==
    select_utxos_from(sorted_utxos \o sorted_utxos, 1, <<>>, 0, target_amount, fee_amount)

select_utxos(sorted_utxos, target_amount, fee_amount) ==
    select_utxos_from(sorted_utxos, 1, <<>>, 0, target_amount, fee_amount)

\* Ord::cmp on two amounts.
cmp(x, y) == IF x < y THEN "Less" ELSE IF x = y THEN "Equal" ELSE "Greater"

\* |a, b| b.amount.cmp(&a.amount)
largest_first_cmp_asc(a, b) == cmp(a.amount, b.amount)

largest_first_cmp(a, b) == cmp(b.amount, a.amount)

\* |a, b| a.amount.cmp(&b.amount)
smallest_first_cmp_desc(a, b) == cmp(b.amount, a.amount)

smallest_first_cmp(a, b) == cmp(a.amount, b.amount)

compare(order, a, b) ==
    IF order = "largest_first" THEN largest_first_cmp(a, b) ELSE smallest_first_cmp(a, b)

\* slice::sort_by is a stable sort: x goes before the first element that compares
\* Greater than it, so behind every element that compares Equal.
RECURSIVE insert_unstable(_, _, _)
insert_unstable(sorted, x, order) ==
    IF sorted = <<>> THEN <<x>>
    ELSE IF compare(order, x, Head(sorted)) \in {"Less", "Equal"}
         THEN <<x>> \o sorted
         ELSE <<Head(sorted)>> \o insert_unstable(Tail(sorted), x, order)

RECURSIVE insert_stable(_, _, _)
insert_stable(sorted, x, order) ==
    IF sorted = <<>> THEN <<x>>
    ELSE IF compare(order, x, Head(sorted)) = "Less"
         THEN <<x>> \o sorted
         ELSE <<Head(sorted)>> \o insert_stable(Tail(sorted), x, order)

\* The place sort_by gives x among the elements sorted so far.
insert(sorted, x, order) == insert_stable(sorted, x, order)

RECURSIVE sort_by(_, _)
sort_by(v, order) ==
    IF v = <<>> THEN <<>>
    ELSE insert(sort_by(SubSeq(v, 1, Len(v) - 1), order), v[Len(v)], order)

select_utxos_fifo_sorted(utxos, target_amount, fee_amount) ==
    LET sorted_utxos == sort_by(utxos, "smallest_first")
    IN  select_utxos(sorted_utxos, target_amount, fee_amount)

select_utxos_fifo(utxos, target_amount, fee_amount) ==
    LET sorted_utxos == utxos
    IN  select_utxos(sorted_utxos, target_amount, fee_amount)

select_utxos_largest_first(utxos, target_amount, fee_amount) ==
    LET sorted_utxos == sort_by(utxos, "largest_first")
    IN  select_utxos(sorted_utxos, target_amount, fee_amount)

select_utxos_smallest_first(utxos, target_amount, fee_amount) ==
    LET sorted_utxos == sort_by(utxos, "smallest_first")
    IN  select_utxos(sorted_utxos, target_amount, fee_amount)

\* The for loop of the else branch: the queue entries pushed for current_selection,
\* from utxo i on.  A total above U64_MAX stands for the `current_total + utxo.amount`
\* that overflows.
RECURSIVE bnb_expand(_, _, _, _)
bnb_expand(utxos, i, current_selection, current_total) ==
    IF i > Len(utxos) THEN <<>>
    ELSE LET utxo == utxos[i]
             rest == bnb_expand(utxos, i + 1, current_selection, current_total)
         IN  IF contains(current_selection, utxo) THEN rest
             ELSE <<[selection |-> Append(current_selection, utxo),
                     total |-> current_total + utxo.amount]>> \o rest

\* The entries pushed while queue[lo..hi] is popped, in pop order: an entry that
\* reaches the threshold pushes nothing, any other one its extensions.
RECURSIVE bnb_pushed(_, _, _, _, _)
bnb_pushed(utxos, threshold, queue, lo, hi) ==
    IF lo > hi THEN <<>>
    ELSE IF lo = hi
    THEN IF queue[lo].total >= threshold
         THEN <<>>
         ELSE bnb_expand(utxos, 1, queue[lo].selection, queue[lo].total)
    ELSE LET mid == (lo + hi) \div 2
         IN  bnb_pushed(utxos, threshold, queue, lo, mid)
                \o bnb_pushed(utxos, threshold, queue, mid + 1, hi)

\* `change < current_best_change`
bnb_improves_wrong_way(change, current_best_change) == change > current_best_change

bnb_improves_first_found(change, current_best_change) == current_best_change = U64_MAX

bnb_improves(change, current_best_change) == change < current_best_change

\* The while loop, one generation of the queue per step.  The queue is first-in
\* first-out and every push goes to its back, so the entries of one length are all
\* popped before any entry they push.  Popping them in order replaces the best
\* solution only by a strictly smaller change: what they leave as the best is the
\* first of them with the least change, if that improves on the best so far.
RECURSIVE bnb_loop(_, _, _, _, _, _)
bnb_loop(utxos, target_amount, fee_amount, queue, current_best_solution, current_best_change) ==
    IF queue = <<>> THEN Ok(current_best_solution)
    ELSE IF target_amount + fee_amount > U64_MAX
    THEN Panic                                                \* target_amount + fee_amount
    ELSE LET threshold == target_amount + fee_amount
             reached == {i \in 1..Len(queue) : queue[i].total >= threshold}
             change(i) == queue[i].total - target_amount - fee_amount
             best == {i \in reached :
                        /\ bnb_improves(change(i), current_best_change)
                        /\ \A j \in reached :
                              /\ j < i => bnb_improves(change(i), change(j))
                              /\ j > i => ~bnb_improves(change(j), change(i))}
             pushed == bnb_pushed(utxos, threshold, queue, 1, Len(queue))
         IN  IF \E i \in 1..Len(pushed) : pushed[i].total > U64_MAX
             THEN Panic                                       \* current_total + utxo.amount
             ELSE IF best = {}
             THEN bnb_loop(utxos, target_amount, fee_amount, pushed,
                           current_best_solution, current_best_change)
             ELSE LET i == CHOOSE i \in best : TRUE
                  IN  bnb_loop(utxos, target_amount, fee_amount, pushed,
                               <<queue[i].selection>>, change(i))

\* Returns Ok(<<selection>>) for Some(selection), Ok(<<>>) for None, or Panic.
select_utxos_branch_and_bound(utxos, target_amount, fee_amount) ==
    bnb_loop(utxos, target_amount, fee_amount,
             <<[selection |-> <<>>, total |-> 0]>>, None, U64_MAX)

\* UTXOStrategy::SingleUTXO: the first output whose amount alone covers target + fee.
RECURSIVE single_utxo_from(_, _, _)
single_utxo_from(utxos, i, threshold) ==
    IF i > Len(utxos) THEN Err("InsufficientUTXOs")
    ELSE IF utxos[i].amount >= threshold THEN Ok(<<utxos[i]>>)
    ELSE single_utxo_from(utxos, i + 1, threshold)

select_utxos_single(utxos, target_amount, fee_amount) ==
    IF target_amount + fee_amount > U64_MAX
    THEN Err("AmountOverflow")
    ELSE single_utxo_from(utxos, 1, target_amount + fee_amount)

strat_handler(utxos, target_amount, fee_amount, utxo_strategy) ==
    CASE utxo_strategy = "BranchAndBound" ->
            LET r == select_utxos_branch_and_bound(utxos, target_amount, fee_amount)
            IN  IF r.kind = "Panic" THEN r
                ELSE IF r.val = None THEN Err("InsufficientUTXOs")   \* .ok_or(..)
                ELSE Ok(r.val[1])
      [] utxo_strategy = "Fifo" ->
            select_utxos_fifo(utxos, target_amount, fee_amount)
      [] utxo_strategy = "LargestFirst" ->
            select_utxos_largest_first(utxos, target_amount, fee_amount)
      [] utxo_strategy = "SmallestFirst" ->
            select_utxos_smallest_first(utxos, target_amount, fee_amount)
      [] utxo_strategy = "SingleUTXO" ->
            select_utxos_single(utxos, target_amount, fee_amount)

UTXOStrategy == {"BranchAndBound", "Fifo", "LargestFirst", "SmallestFirst"}

(***************************************************************************)
(* Inputs of the selection: a wallet's listunspent snapshot (distinct      *)
(* outpoints, any amounts, equal amounts included), a target and a fee.    *)
(***************************************************************************)
Amounts == {0, 1000, 2000, 3000, 5000, U64_MAX}

Targets == {0, 3000, 4000, U64_MAX}

Fees == {0, 200}

UtxoLists ==
    UNION {{[i \in 1..n |-> [txid |-> i, vout |-> 0, amount |-> f[i]]] :
              f \in [1..n -> Amounts]} : n \in 0..MaxUtxos}

NoNode == [next_address |-> 0, next_key |-> 0, unspent |-> <<>>, height |-> 0, log |-> <<>>, finished |-> <<>>]

NoLocals == <<>>

InitSelect ==
    /\ op = "strat_handler"
    /\ pc = "call"
    /\ input \in [utxos : UtxoLists, target_amount : Targets, fee_amount : Fees,
                  utxo_strategy : UTXOStrategy \cup {"SingleUTXO"}]
    /\ local = NoLocals
    /\ ret = NotRun
    /\ node = NoNode

Call_strat_handler ==
    /\ op = "strat_handler"
    /\ pc = "call"
    /\ ret' = strat_handler(input.utxos, input.target_amount, input.fee_amount,
                            input.utxo_strategy)
    /\ pc' = "return"
    /\ UNCHANGED <<op, input, local, node>>

NextSelect == Call_strat_handler

SpecSelect == InitSelect /\ [][NextSelect]_vars

(***************************************************************************)
(* The wallet/node collaborator behind Wallet (crates/wallet/src/wallet.rs).*)
(* Each RPC is answered by the node; the model draws the answer.  The node *)
(* numbers the addresses it issues, so no address is issued twice.         *)
(***************************************************************************)
Some(v) == <<v>>

Address(n) == [address |-> n]

script_pubkey(address) == [pays_to |-> address]

Served(wallet, rpc, arg, reply) ==
    [wallet EXCEPT !.log = Append(@, [rpc |-> rpc, arg |-> arg, reply |-> reply])]

AddressReplies == {"ok", "rpc_error", "network_mismatch"}

\* Wallet::new_address: getnewaddress, then require_network.
new_address(wallet, address_type, reply) ==
    IF reply = "rpc_error"
    THEN [ret |-> Err("RpcError"),
          node |-> Served(wallet, "getnewaddress", address_type, "error")]
    ELSE LET address == Address(wallet.next_address)
             issued == [Served(wallet, "getnewaddress", address_type, address)
                           EXCEPT !.next_address = @ + 1]
         IN  IF reply = "network_mismatch"
             THEN [ret |-> Err("AddressNetworkMismatch"), node |-> issued]
             ELSE [ret |-> Ok(address), node |-> issued]

SignReplies == {"signed", "incomplete", "rpc_error", "undecodable"}

\* Wallet::sign_tx: signrawtransactionwithwallet, then the decoding of the hex the
\* node answers with.  The node answers with the transaction it was given, its
\* inputs signed where it holds the keys; `complete` is not looked at.
sign_tx(wallet, tx, reply) ==
    IF reply = "rpc_error"
    THEN [ret |-> Err("RpcError"),
          node |-> Served(wallet, "signrawtransactionwithwallet", tx, "error")]
    ELSE IF reply = "undecodable"
    THEN [ret |-> Err("SigningFailed"),
          node |-> Served(wallet, "signrawtransactionwithwallet", tx, "undecodable")]
    ELSE LET signed ==
                 IF reply = "incomplete" THEN tx
                 ELSE [tx EXCEPT !.input =
                          [i \in 1..Len(tx.input) |->
                              [tx.input[i] EXCEPT !.witness = <<"wallet_signature">>]]]
         IN  [ret |-> Ok(signed),
              node |-> Served(wallet, "signrawtransactionwithwallet", tx, reply)]

(***************************************************************************)
(* crates/wallet/src/builder.rs                                            *)
(***************************************************************************)

\* u64::checked_add
wrapping_add(a, b) == Some((a + b) % (U64_MAX + 1))

checked_add(a, b) == IF a + b > U64_MAX THEN None ELSE Some(a + b)

\* u64::checked_sub
checked_sub(a, b) == IF a - b < 0 THEN None ELSE Some(a - b)

\* The inputs of the commit transaction.
commit_input(utxo) ==
    <<[previous_output |-> [txid |-> utxo.txid, vout |-> utxo.vout],
       script_sig |-> <<>>,
       sequence |-> "ENABLE_RBF_NO_LOCKTIME",
       witness |-> <<>>]>>

\* The outputs of the commit transaction.
commit_output_without_zero_change(amount, commit_script, change_amount, change_script) ==
    <<[value |-> amount, script_pubkey |-> commit_script]>>
        \o (IF change_amount > 0
            THEN <<[value |-> change_amount, script_pubkey |-> change_script]>>
            ELSE <<>>)

commit_output_change_first(amount, commit_script, change_amount, change_script) ==
    <<[value |-> change_amount, script_pubkey |-> change_script],
      [value |-> amount, script_pubkey |-> commit_script]>>

commit_output(amount, commit_script, change_amount, change_script) ==
    <<[value |-> amount, script_pubkey |-> commit_script],
      [value |-> change_amount, script_pubkey |-> change_script]>>

\* Returns [ret, node]: the Result and the collaborator after the call.  replies are
\* the collaborator's answers to the RPCs the call may make.
build_commit_transaction(wallet, utxo, amount, fee_amount, commit_script, replies) ==
    LET total_needed == checked_add(amount, fee_amount)
    IN  IF total_needed = None
        THEN [ret |-> Err("Amount overflow"), node |-> wallet]
        ELSE IF total_needed[1] > utxo.amount
        THEN [ret |-> Err("Insufficient funds for commit transaction"), node |-> wallet]
        ELSE LET change_amount == checked_sub(utxo.amount, total_needed[1])
             IN  IF change_amount = None
                 THEN [ret |-> Err("Amount underflow"), node |-> wallet]
                 ELSE LET address == new_address(wallet, "Bech32m", replies.new_address)
                      IN  IF address.ret.kind = "Err"
                          THEN address
                          ELSE LET tx == [version |-> 2,
                                          lock_time |-> 0,
                                          input |-> commit_input(utxo),
                                          output |-> commit_output(amount, commit_script,
                                                        change_amount[1],
                                                        script_pubkey(address.ret.val))]
                                   signed_tx == sign_tx(address.node, tx, replies.sign)
                               IN  IF signed_tx.ret.kind = "Err"
                                   THEN signed_tx
                                   ELSE [ret |-> Ok([tx |-> signed_tx.ret.val, vout |-> 0]),
                                         node |-> signed_tx.node]

\* Inputs of build_commit_transaction: a funding UTXO, the amount to commit and the
\* fee, each up to the width of the code's integers; a wallet that may have issued
\* addresses before.
CommitUtxos ==
    [txid : {1, 2}, vout : {0, 1}, amount : {0, 546, 20000, 70000, 90000, U64_MAX}]

CommitAmounts == {0, 546, 70000, U64_MAX}

CommitFees == {0, 20000, U64_MAX}

InitCommit ==
    /\ op = "build_commit_transaction"
    /\ pc = "call"
    /\ input \in [utxo : CommitUtxos, amount : CommitAmounts, fee_amount : CommitFees,
                  commit_script : {[pays_to |-> "commitment"]}]
    /\ local = NoLocals
    /\ ret = NotRun
    /\ node \in {[NoNode EXCEPT !.next_address = n] : n \in {0, 1}}

Call_build_commit_transaction ==
    /\ op = "build_commit_transaction"
    /\ pc = "call"
    /\ \E replies \in [new_address : AddressReplies, sign : SignReplies] :
          LET r == build_commit_transaction(node, input.utxo, input.amount,
                                            input.fee_amount, input.commit_script, replies)
          IN  ret' = r.ret /\ node' = r.node
    /\ pc' = "return"
    /\ UNCHANGED <<op, input, local>>

NextCommit == Call_build_commit_transaction

SpecCommit == InitCommit /\ [][NextCommit]_vars

(***************************************************************************)
(* build_reveal_transaction (crates/wallet/src/builder.rs) and the taproot *)
(* values it is given.  Keys, hashes and signatures are kept as terms: a   *)
(* signature names the key that made it and the message it signs.          *)
(***************************************************************************)

\* XOnlyPublicKey::from_keypair
XOnlyPublicKey(key_pair) == [public_key_of |-> key_pair]

\* TapLeafHash::from_script
TapLeafHash(script, leaf_version) == [leaf_hash_of |-> script, leaf_version |-> leaf_version]

\* TaprootBuilder::new().add_leaf(0, reveal_script).finalize(secp, public_key)
TaprootSpendInfo(public_key, reveal_script) ==
    [internal_key |-> public_key,
     merkle_root |-> Some(TapLeafHash(reveal_script, "TapScript")),
     leaves |-> {[script |-> reveal_script, leaf_version |-> "TapScript"]}]

\* ScriptBuf::new_p2tr
new_p2tr(internal_key, merkle_root) ==
    [p2tr |-> internal_key, merkle_root |-> merkle_root]

\* TaprootSpendInfo::control_block
control_block(taproot_spend_info, script, leaf_version) ==
    IF [script |-> script, leaf_version |-> leaf_version] \in taproot_spend_info.leaves
    THEN Some([leaf_version |-> leaf_version,
               internal_key |-> taproot_spend_info.internal_key,
               merkle_branch |-> <<>>])
    ELSE None

\* Transaction::txid: the transaction without its witnesses.
txid(tx) ==
    [txid_of |-> [tx EXCEPT !.input =
                     [i \in 1..Len(tx.input) |-> [tx.input[i] EXCEPT !.witness = <<>>]]]]

RECURSIVE SumValues(_)
SumValues(outputs) ==
    IF outputs = <<>> THEN 0 ELSE Head(outputs).value + SumValues(Tail(outputs))

\* Iterator::sum over u64: an overflow panics in a build with overflow checks and
\* wraps in a build without them.
iter_sum(outputs, overflow_checks) ==
    IF SumValues(outputs) <= U64_MAX THEN Some(SumValues(outputs))
    ELSE IF overflow_checks THEN None
    ELSE Some(SumValues(outputs) % (U64_MAX + 1))

\* `if is_rune { .. } else { .. }`: both branches give the same sequence.
reveal_sequence(is_rune) ==
    IF is_rune THEN "ENABLE_RBF_NO_LOCKTIME" ELSE "ENABLE_RBF_NO_LOCKTIME"

BuildProfiles == {"overflow_checks", "no_overflow_checks"}

\* The outputs of the reveal transaction: the remaining amount, if any, to the new
\* address, then the outputs the caller gave.
reveal_outputs_remaining_last(remaining_amount, address, additional_outputs) ==
    additional_outputs \o
        (IF remaining_amount > 0
         THEN <<[value |-> remaining_amount, script_pubkey |-> script_pubkey(address)]>>
         ELSE <<>>)

reveal_outputs(remaining_amount, address, additional_outputs) ==
    (IF remaining_amount > 0
     THEN <<[value |-> remaining_amount, script_pubkey |-> script_pubkey(address)]>>
     ELSE <<>>) \o additional_outputs

\* The three pushes onto the witness of input 0.
reveal_witness_script_first(signature, reveal_script, control) ==
    <<reveal_script, signature, control>>

reveal_witness(signature, reveal_script, control) ==
    <<signature, reveal_script, control>>

\* Returns [ret, node].  env: the collaborator's answer to new_address, and the
\* build profile.
build_reveal_transaction(wallet, key_pair, reveal_script, taproot_spend_info, commit_outpoint, amount, fee_amount, is_rune, additional_outputs, env) ==
    LET additional_output_total ==
            iter_sum(additional_outputs, env.profile = "overflow_checks")
    IN  IF additional_output_total = None
        THEN [ret |-> [Panic EXCEPT !.err = "attempt to add with overflow"], node |-> wallet]
        ELSE
        LET after_fee == checked_sub(amount, fee_amount)
            remaining_amount ==
                IF after_fee = None THEN None
                ELSE checked_sub(after_fee[1], additional_output_total[1])
        IN  IF remaining_amount = None
            THEN [ret |-> Err("Insufficient amount for reveal transaction"), node |-> wallet]
            ELSE
            LET sequence == reveal_sequence(is_rune)
                address == IF remaining_amount[1] > 0
                           THEN new_address(wallet, "Bech32m", env.new_address)
                           ELSE [ret |-> Ok(None), node |-> wallet]
            IN  IF address.ret.kind = "Err"
                THEN address
                ELSE
                LET outputs == reveal_outputs(remaining_amount[1], address.ret.val,
                                              additional_outputs)
                    reveal_tx == [version |-> 2,
                                  lock_time |-> 0,
                                  input |-> <<[previous_output |-> commit_outpoint,
                                               script_sig |-> <<>>,
                                               sequence |-> sequence,
                                               witness |-> <<>>]>>,
                                  output |-> outputs]
                    prev_tx_out == [value |-> amount,
                                    script_pubkey |->
                                        new_p2tr(taproot_spend_info.internal_key,
                                                 taproot_spend_info.merkle_root)]
                    leaf_hash == TapLeafHash(reveal_script, "TapScript")
                    sighash == [tx |-> reveal_tx,
                                input_index |-> 0,
                                prevouts |-> <<prev_tx_out>>,
                                leaf_hash |-> leaf_hash,
                                sighash_type |-> "Default"]
                    signature == [schnorr_by |-> key_pair, message |-> sighash]
                    control == control_block(taproot_spend_info, reveal_script, "TapScript")
                IN  IF control = None
                    THEN [ret |-> [Panic EXCEPT !.err = "Failed to create control block"],
                          node |-> address.node]
                    ELSE [ret |-> Ok([reveal_tx EXCEPT !.input[1].witness =
                                         reveal_witness(signature, reveal_script,
                                                        control[1])]),
                          node |-> address.node]

\* Inputs of build_reveal_transaction.
MaxOutputs == 2

RevealScripts == {[reveal_script_of |-> f] : f \in {"readable", "other"}}

RevealTxOuts ==
    [value : {0, 546, 2^(AmountBits - 1), U64_MAX},
     script_pubkey : {new_p2tr(XOnlyPublicKey([secret |-> 0]), None),
                      [encipher |-> "runestone"]}]

RevealOutputLists == UNION {[1..n -> RevealTxOuts] : n \in 0..MaxOutputs}

RevealAmounts == {0, 20000, 20546, 70000, U64_MAX}

RevealFees == {0, 20000}

InitReveal ==
    /\ op = "build_reveal_transaction"
    /\ pc = "call"
    /\ input \in [key_pair : {[secret |-> 0]},
                  reveal_script : RevealScripts,
                  taproot_spend_info :
                      {TaprootSpendInfo(XOnlyPublicKey([secret |-> 0]), script) :
                          script \in RevealScripts},
                  commit_outpoint : [txid : {1}, vout : {0, 1}],
                  amount : RevealAmounts,
                  fee_amount : RevealFees,
                  is_rune : BOOLEAN,
                  additional_outputs : RevealOutputLists]
    /\ local = NoLocals
    /\ ret = NotRun
    /\ node = NoNode

Call_build_reveal_transaction ==
    /\ op = "build_reveal_transaction"
    /\ pc = "call"
    /\ \E env \in [new_address : AddressReplies, profile : BuildProfiles] :
          LET built == build_reveal_transaction(node, input.key_pair, input.reveal_script,
                           input.taproot_spend_info, input.commit_outpoint, input.amount,
                           input.fee_amount, input.is_rune, input.additional_outputs, env)
          IN  /\ ret' = built.ret
              /\ node' = built.node
    /\ pc' = "return"
    /\ UNCHANGED <<op, input, local>>

NextReveal == Call_build_reveal_transaction

SpecReveal == InitReveal /\ [][NextReveal]_vars

(***************************************************************************)
(* Wallet::inscribe_ordinal and Wallet::etch_rune (crates/wallet/src/      *)
(* wallet.rs), one action per stretch of code between the points where the *)
(* collaborator's answers decide how it goes on.                           *)
(***************************************************************************)
COMMIT_FEE == 20000
REVEAL_FEE == 20000
ETCH_POSTAGE == 70000
PREMINE_AMOUNT == 546
CONFIRMATION_BLOCKS == 6

MaxWalletUtxos == 3

\* The strategy both flows hand to strat_handler.
FundingStrategyFifo == "Fifo"

FundingStrategy == "SingleUTXO"

\* UntweakedKeypair::new on a generator that is seeded the same in every call.
new_keypair_from_fixed_seed(wallet) ==
    [key_pair |-> [secret |-> 0], node |-> [wallet EXCEPT !.next_key = @ + 1]]

\* UntweakedKeypair::new(&secp, &mut rand::thread_rng()): a key pair no earlier
\* draw gave.
new_keypair(wallet) ==
    [key_pair |-> [secret |-> wallet.next_key],
     node |-> [wallet EXCEPT !.next_key = @ + 1]]

\* Wallet::list_all_unspent
list_all_unspent(wallet, reply) ==
    IF reply = "rpc_error"
    THEN [ret |-> Err("RpcError"), node |-> Served(wallet, "listunspent", None, "error")]
    ELSE [ret |-> Ok(wallet.unspent),
          node |-> Served(wallet, "listunspent", None, "ok")]

\* Client::send_raw_transaction
send_raw_transaction(wallet, tx, reply) ==
    IF reply = "rpc_error"
    THEN [ret |-> Err("RpcError"),
          node |-> Served(wallet, "sendrawtransaction", tx, "error")]
    ELSE [ret |-> Ok(txid(tx)),
          node |-> Served(wallet, "sendrawtransaction", tx, "accepted")]

\* Wallet::mine_blocks, on a wallet of the given network.
mine_blocks_ignoring_failure(wallet, network, address_type, blocks, replies) ==
    LET coinbase_recipient == new_address(wallet, address_type, "ok")
    IN  [ret |-> coinbase_recipient.ret,
         node |-> IF network = "Regtest" /\ replies.generate = "ok"
                  THEN [Served(coinbase_recipient.node, "generatetoaddress", blocks, "ok")
                           EXCEPT !.height = @ + blocks]
                  ELSE Served(coinbase_recipient.node, "generatetoaddress", blocks,
                              "error")]

mine_blocks(wallet, network, address_type, blocks, replies) ==
    IF network # "Regtest"
    THEN [ret |-> Err("Network must be regtest"), node |-> wallet]
    ELSE LET coinbase_recipient == new_address(wallet, address_type, replies.new_address)
         IN  IF coinbase_recipient.ret.kind = "Err"
             THEN coinbase_recipient
             ELSE IF replies.generate = "rpc_error"
             THEN [ret |-> Err("RpcError"),
                   node |-> Served(coinbase_recipient.node, "generatetoaddress",
                                   blocks, "error")]
             ELSE [ret |-> coinbase_recipient.ret,
                   node |-> [Served(coinbase_recipient.node, "generatetoaddress",
                                    blocks, "ok")
                                EXCEPT !.height = @ + blocks]]

Flows == {"inscribe_ordinal", "etch_rune"}

InFlow(flow, at) == op = flow /\ pc = at

Return(result, wallet) ==
    /\ ret' = result
    /\ node' = wallet
    /\ pc' = "return"

\* The amount both flows commit: the postage.
FlowAmount == IF op = "inscribe_ordinal" THEN input.postage ELSE ETCH_POSTAGE

\* inscribe_ordinal up to the commit script: the inscription read from the file, its
\* reveal script, a new key pair, the one-leaf taproot tree.
Inscribe_prepare ==
    /\ InFlow("inscribe_ordinal", "call")
    /\ UNCHANGED <<op, input>>
    /\ IF input.file = "unreadable"
       THEN Return(Err("InscriptionData::new"), node) /\ UNCHANGED local
       ELSE IF input.file = "unencodable"
       THEN Return(Err("reveal_script_as_scriptbuf"), node) /\ UNCHANGED local
       ELSE LET reveal_script == [reveal_script_of |-> input.file]
                drawn == new_keypair(node)
                public_key == XOnlyPublicKey(drawn.key_pair)
                taproot_spend_info == TaprootSpendInfo(public_key, reveal_script)
            IN  /\ local' = [reveal_script |-> reveal_script,
                             key_pair |-> drawn.key_pair,
                             taproot_spend_info |-> taproot_spend_info,
                             commit_script |->
                                 new_p2tr(taproot_spend_info.internal_key,
                                          taproot_spend_info.merkle_root)]
                /\ node' = drawn.node
                /\ pc' = "fund"
                /\ UNCHANGED ret

\* etch_rune up to the commit script: a new key pair, the runestone, its reveal
\* script and destination script, the one-leaf taproot tree.
Etch_prepare ==
    /\ InFlow("etch_rune", "call")
    /\ UNCHANGED <<op, input, ret>>
    /\ LET drawn == new_keypair(node)
           public_key == XOnlyPublicKey(drawn.key_pair)
           runestone == [edicts |-> <<>>, etching |-> Some(input.etching),
                         mint |-> None, pointer |-> None]
           reveal_script == [envelope |-> [encipher |-> runestone],
                             checksig |-> public_key]
           taproot_spend_info == TaprootSpendInfo(public_key, reveal_script)
       IN  /\ local' = [reveal_script |-> reveal_script,
                        key_pair |-> drawn.key_pair,
                        runestone |-> runestone,
                        destination_script |-> new_p2tr(public_key, None),
                        taproot_spend_info |-> taproot_spend_info,
                        commit_script |->
                            new_p2tr(taproot_spend_info.internal_key,
                                     taproot_spend_info.merkle_root)]
           /\ node' = drawn.node
           /\ pc' = "fund"

\* Either flow: list the wallet's unspent outputs and select the funding of the
\* commit.
Flow_fund ==
    /\ op \in Flows /\ pc = "fund"
    /\ UNCHANGED <<op, input>>
    /\ \E reply \in {"ok", "rpc_error"} :
          LET utxos == list_all_unspent(node, reply)
          IN  IF utxos.ret.kind = "Err"
              THEN Return(utxos.ret, utxos.node) /\ UNCHANGED local
              ELSE IF utxos.ret.val = <<>>
              THEN Return(Err("No unspent outputs available"), utxos.node)
                      /\ UNCHANGED local
              ELSE LET selected_utxos ==
                           strat_handler(utxos.ret.val, FlowAmount, COMMIT_FEE,
                                         FundingStrategy)
                   IN  IF selected_utxos.kind # "Ok"
                       THEN Return(selected_utxos, utxos.node) /\ UNCHANGED local
                       ELSE IF selected_utxos.val = <<>>
                       THEN Return(Err("No UTXOs selected"), utxos.node)
                               /\ UNCHANGED local
                       ELSE /\ local' = [x \in DOMAIN local \cup {"selected_utxos"} |->
                                            IF x = "selected_utxos"
                                            THEN selected_utxos.val ELSE local[x]]
                            /\ node' = utxos.node
                            /\ pc' = "build_commit"
                            /\ UNCHANGED ret

\* Either flow: build_commit_transaction on the first selected UTXO.
Flow_build_commit ==
    /\ op \in Flows /\ pc = "build_commit"
    /\ UNCHANGED <<op, input>>
    /\ \E replies \in [new_address : AddressReplies, sign : SignReplies] :
          LET built == build_commit_transaction(node, local.selected_utxos[1], FlowAmount,
                                                COMMIT_FEE, local.commit_script, replies)
          IN  IF built.ret.kind # "Ok"
              THEN Return(built.ret, built.node) /\ UNCHANGED local
              ELSE /\ local' = [x \in DOMAIN local \cup {"commit_tx", "commit_vout"} |->
                                   IF x = "commit_tx" THEN built.ret.val.tx
                                   ELSE IF x = "commit_vout" THEN built.ret.val.vout
                                   ELSE local[x]]
                   /\ node' = built.node
                   /\ pc' = "build_reveal"
                   /\ UNCHANGED ret

\* inscribe_ordinal: the reveal transaction, with no additional output.
Inscribe_build_reveal ==
    /\ InFlow("inscribe_ordinal", "build_reveal")
    /\ UNCHANGED <<op, input>>
    /\ \E env \in [new_address : AddressReplies, profile : BuildProfiles] :
          LET built == build_reveal_transaction(node, local.key_pair, local.reveal_script,
                           local.taproot_spend_info,
                           [txid |-> txid(local.commit_tx), vout |-> local.commit_vout],
                           FlowAmount, REVEAL_FEE, FALSE, <<>>, env)
          IN  IF built.ret.kind # "Ok"
              THEN Return(built.ret, built.node) /\ UNCHANGED local
              ELSE /\ local' = [x \in DOMAIN local \cup {"reveal_tx", "total_fees"} |->
                                   IF x = "reveal_tx" THEN built.ret.val
                                   ELSE IF x = "total_fees" THEN COMMIT_FEE + REVEAL_FEE
                                   ELSE local[x]]
                   /\ node' = built.node
                   /\ pc' = "send_commit"
                   /\ UNCHANGED ret

\* inscribe_ordinal: broadcast the commit transaction.
Inscribe_send_commit ==
    /\ InFlow("inscribe_ordinal", "send_commit")
    /\ UNCHANGED <<op, input>>
    /\ \E reply \in {"ok", "rpc_error"} :
          LET sent == send_raw_transaction(node, local.commit_tx, reply)
          IN  IF sent.ret.kind # "Ok"
              THEN Return(sent.ret, sent.node) /\ UNCHANGED local
              ELSE /\ local' = [x \in DOMAIN local \cup {"commit_txid"} |->
                                   IF x = "commit_txid" THEN sent.ret.val ELSE local[x]]
                   /\ node' = sent.node
                   /\ pc' = "mine"
                   /\ UNCHANGED ret

\* inscribe_ordinal: open the wallet "miner" and have it mine 6 blocks.
Inscribe_mine ==
    /\ InFlow("inscribe_ordinal", "mine")
    /\ UNCHANGED <<op, input, local>>
    /\ \E replies \in [miner : {"ok", "error"}, new_address : AddressReplies,
                       generate : {"ok", "rpc_error"}] :
          IF replies.miner = "error"
          THEN Return(Err("Wallet::new"), node)
          ELSE LET mined == mine_blocks(node, input.network, "Bech32",
                                        CONFIRMATION_BLOCKS, replies)
               IN  IF mined.ret.kind # "Ok"
                   THEN Return(mined.ret, mined.node)
                   ELSE /\ node' = mined.node
                        /\ pc' = "send_reveal"
                        /\ UNCHANGED ret

\* inscribe_ordinal: broadcast the reveal transaction and return the pair.
Inscribe_send_reveal ==
    /\ InFlow("inscribe_ordinal", "send_reveal")
    /\ UNCHANGED <<op, input, local>>
    /\ \E reply \in {"ok", "rpc_error"} :
          LET sent == send_raw_transaction(node, local.reveal_tx, reply)
          IN  IF sent.ret.kind # "Ok"
              THEN Return(sent.ret, sent.node)
              ELSE Return(Ok([commit_tx |-> local.commit_tx,
                              commit_txid |-> local.commit_txid,
                              reveal_tx |-> local.reveal_tx,
                              reveal_txid |-> sent.ret.val,
                              total_fees |-> local.total_fees]), sent.node)

\* etch_rune: the outputs handed to build_reveal_transaction: the premine payout if
\* the etching has a premine, then the zero-value output carrying the runestone.
etch_reveal_outputs_runestone_first(etching, destination_script, runestone) ==
    <<[script_pubkey |-> [encipher |-> runestone], value |-> 0]>>
        \o (IF etching.premine # None
            THEN <<[script_pubkey |-> destination_script, value |-> PREMINE_AMOUNT]>>
            ELSE <<>>)

etch_reveal_outputs(etching, destination_script, runestone) ==
    LET premine_amount == IF etching.premine # None THEN PREMINE_AMOUNT ELSE 0
    IN  (IF etching.premine # None
         THEN <<[script_pubkey |-> destination_script, value |-> premine_amount]>>
         ELSE <<>>)
        \o <<[script_pubkey |-> [encipher |-> runestone], value |-> 0]>>

\* etch_rune: the reveal outputs (the premine payout if the etching has a premine,
\* then the runestone), the reveal transaction, and the return; nothing is
\* broadcast.
Etch_build_reveal ==
    /\ InFlow("etch_rune", "build_reveal")
    /\ UNCHANGED <<op, input>>
    /\ \E env \in [new_address : AddressReplies, profile : BuildProfiles] :
          LET reveal_outputs_of_etching ==
                  etch_reveal_outputs(input.etching, local.destination_script,
                                      local.runestone)
              built == build_reveal_transaction(node, local.key_pair, local.reveal_script,
                           local.taproot_spend_info,
                           [txid |-> txid(local.commit_tx), vout |-> local.commit_vout],
                           ETCH_POSTAGE, REVEAL_FEE, TRUE, reveal_outputs_of_etching,
                           env)
          IN  IF built.ret.kind # "Ok"
              THEN Return(built.ret, built.node) /\ UNCHANGED local
              ELSE /\ local' = [x \in DOMAIN local \cup {"reveal_tx"} |->
                                   IF x = "reveal_tx" THEN built.ret.val ELSE local[x]]
                   /\ Return(Ok(None), built.node)

\* Inputs of the flows: what the wallet holds, the postage, the file, the network
\* of the configuration, the etching.
WalletAmounts == {40000, 50000, 90000, 120000}

WalletUtxoLists ==
    UNION {{[i \in 1..n |-> [txid |-> i, vout |-> 0, amount |-> f[i]]] :
              f \in [1..n -> WalletAmounts]} : n \in 0..MaxWalletUtxos}

Postages == {10000, 20000, 70000}

InitFlow ==
    /\ \/ /\ op = "inscribe_ordinal"
          /\ input \in [postage : Postages,
                        file : {"readable", "unreadable", "unencodable"},
                        network : {"Regtest", "Bitcoin"}]
       \/ /\ op = "etch_rune"
          /\ input \in [etching : [premine : {None, Some(1)}]]
    /\ pc = "call"
    /\ local = NoLocals
    /\ ret = NotRun
    /\ node \in {[NoNode EXCEPT !.unspent = u] : u \in WalletUtxoLists}

NextFlow ==
    \/ Inscribe_prepare
    \/ Etch_prepare
    \/ Flow_fund
    \/ Flow_build_commit
    \/ Inscribe_build_reveal
    \/ Inscribe_send_commit
    \/ Inscribe_mine
    \/ Inscribe_send_reveal
    \/ Etch_build_reveal

SpecFlow == InitFlow /\ [][NextFlow]_vars

\* The selection with the strategy of the flows, called on its own and inside the
\* flows.
InitFunding ==
    \/ InitSelect /\ input.utxo_strategy = FundingStrategy
    \/ InitFlow

SpecFunding == InitFunding /\ [][NextSelect \/ NextFlow]_vars

(***************************************************************************)
(* A second call on the same wallet.  node.finished keeps what the calls   *)
(* before the current one built; the wallet's unspent outputs are what the *)
(* node lists once the broadcasts of the call before are mined.            *)
(***************************************************************************)

\* The UTXO an output of a mined transaction is listed as.
unspent_output(tx, vout) ==
    [txid |-> txid(tx), vout |-> vout, amount |-> tx.output[vout + 1].value]

\* Wallet::list_all_unspent after the call that built and broadcast sent: the
\* funding UTXO of an accepted commit transaction is spent; its change and the
\* change-back output of an accepted reveal transaction are the wallet's.
unspent_after(wallet, sent) ==
    LET accepted == {i \in 1..Len(wallet.log) :
                        /\ wallet.log[i].rpc = "sendrawtransaction"
                        /\ wallet.log[i].reply = "accepted"}
        commit_mined == accepted # {} /\ wallet.height >= CONFIRMATION_BLOCKS
        reveal_mined == Cardinality(accepted) = 2
        funding == IF accepted = {} THEN 0
                   ELSE CHOOSE k \in 1..Len(wallet.unspent) :
                           [txid |-> wallet.unspent[k].txid,
                            vout |-> wallet.unspent[k].vout] =
                               sent.commit_tx.input[1].previous_output
        left == [k \in 1..(Len(wallet.unspent) - (IF funding = 0 THEN 0 ELSE 1)) |->
                    wallet.unspent[IF funding = 0 \/ k < funding THEN k ELSE k + 1]]
        change == IF commit_mined /\ sent.commit_tx.output[2].value > 0
                  THEN <<unspent_output(sent.commit_tx, 1)>> ELSE <<>>
        change_back == IF reveal_mined /\ sent.reveal_tx.output # <<>>
                       THEN <<unspent_output(sent.reveal_tx, 0)>> ELSE <<>>
    IN  left \o change \o change_back

\* What the two calls are given.
AgainInputs(flow) ==
    IF flow = "inscribe_ordinal"
    THEN [postage : {70000}, file : {"readable"}, network : {"Regtest"}]
    ELSE [etching : [premine : {Some(1)}]]

\* The caller calls one of the flows again on the same wallet.
Invoke_again ==
    /\ op \in Flows /\ pc = "return"
    /\ node.finished = <<>>
    /\ op' \in Flows
    /\ input' \in AgainInputs(op')
    /\ pc' = "call"
    /\ local' = NoLocals
    /\ ret' = NotRun
    /\ node' = [node EXCEPT !.finished = Append(@, local),
                            !.unspent = unspent_after(node, local)]

NextFlowTwice == NextFlow \/ Invoke_again

InitFlowTwice == InitFlow /\ input \in AgainInputs(op)

SpecFlowTwice == InitFlowTwice /\ [][NextFlowTwice]_vars

(***************************************************************************)
(* crates/wallet/src/multisig_wallet.rs                                    *)
(* A text is the sequence of its pieces: "wpkh", "(", "[", an origin path, *)
(* "]", an extended key, "/0/*" or "/1/*", ")", "#", a checksum.           *)
(***************************************************************************)

\* str::starts_with
starts_with(s, prefix) ==
    Len(s) >= Len(prefix) /\ SubSeq(s, 1, Len(prefix)) = prefix

\* str::contains
str_contains(s, pattern) ==
    \E k \in 1..(Len(s) - Len(pattern) + 1) : SubSeq(s, k, k + Len(pattern) - 1) = pattern

\* s.split(separator).last().unwrap(): what follows the last separator, all of s if
\* it has none.
split_last(s, separator) ==
    LET at == {k \in 1..Len(s) : s[k] = separator}
    IN  IF at = {} THEN s
        ELSE SubSeq(s, (CHOOSE k \in at : \A j \in at : j <= k) + 1, Len(s))

\* s.split(separator).next().unwrap(): what precedes the first separator, all of s
\* if it has none.
split_next(s, separator) ==
    LET at == {k \in 1..Len(s) : s[k] = separator}
    IN  IF at = {} THEN s
        ELSE SubSeq(s, 1, (CHOOSE k \in at : \A j \in at : k <= j) - 1)

\* serde_json::Value
JsonNull == [json |-> "Null"]

JsonString(s) == [json |-> "String", str |-> s]

JsonArray(items) == [json |-> "Array", items |-> items]

JsonObject(fields) == [json |-> "Object", fields |-> fields]

\* value[key]: Null unless value is an object with that key.
Index(value, key) ==
    IF value.json = "Object" /\ key \in DOMAIN value.fields
    THEN value.fields[key]
    ELSE JsonNull

\* Value::as_str
as_str(value) == IF value.json = "String" THEN Some(value.str) ELSE None

\* Value::as_array
as_array(value) == IF value.json = "Array" THEN Some(value.items) ELSE None

\* Option<&str>::unwrap_or_default
unwrap_or_default(option) == IF option = None THEN <<>> ELSE option[1]

\* The closure of find: desc["desc"] is a text that starts with "wpkh" and contains
\* the derivation suffix.
is_xpub_descriptor(desc, suffix) ==
    /\ starts_with(unwrap_or_default(as_str(Index(desc, "desc"))), <<"wpkh">>)
    /\ str_contains(unwrap_or_default(as_str(Index(desc, "desc"))), <<suffix>>)

\* descriptors_array.iter().find(..)
find(descriptors_array, suffix) ==
    LET at == {k \in 1..Len(descriptors_array) :
                  is_xpub_descriptor(descriptors_array[k], suffix)}
    IN  IF at = {} THEN None
        ELSE Some(descriptors_array[CHOOSE k \in at : \A j \in at : k <= j])

\* format!("external_xpub_{}", i + 1), format!("internal_xpub_{}", i + 1)
xpub_key(side, number) == <<side, number>>

\* HashMap::new
HashMap_new == [key \in {} |-> <<>>]

\* HashMap::insert
insert_xpub(xpubs, key, value) ==
    [k \in DOMAIN xpubs \cup {key} |-> IF k = key THEN value ELSE xpubs[k]]

\* What `.as_str()` is called on after find: the element found.
found_text(desc) == as_str(desc)

\* Returns Ok(the key map) or Err.
extract_int_ext_xpubs(xpubs, descriptors_array, i) ==
    LET external == find(descriptors_array, "/0/*")
        internal == find(descriptors_array, "/1/*")
    IN  IF external = None THEN Err("External xpub not found for wallet")
        ELSE IF found_text(external[1]) = None
        THEN Err("External xpub cannot be parsed to string")
        ELSE IF internal = None THEN Err("Internal xpub not found for wallet")
        ELSE IF found_text(internal[1]) = None
        THEN Err("Internal xpub cannot be parsed to string")
        ELSE LET external_xpub == found_text(external[1])[1]
                 internal_xpub == found_text(internal[1])[1]
                 external_xpub_no_path == split_next(split_last(external_xpub, "]"), ")")
                 internal_xpub_no_path == split_next(split_last(internal_xpub, "]"), ")")
             IN  Ok(insert_xpub(insert_xpub(xpubs, xpub_key("internal_xpub", i + 1),
                                            internal_xpub_no_path),
                                xpub_key("external_xpub", i + 1), external_xpub_no_path))

\* Wallet::new and the RPCs of MultisigWallet::new that only read: served, or
\* refused with an error.
call_rpc(wallet, name, arg, fails) ==
    IF fails
    THEN [ret |-> Err("RpcError"), node |-> Served(wallet, name, arg, "error")]
    ELSE [ret |-> Ok(None), node |-> Served(wallet, name, arg, "ok")]

\* A descriptor as listdescriptors gives it: wrapper, origin path, extended key,
\* derivation suffix, checksum.
DescriptorText(wrapper, origin, xpub, suffix) ==
    <<wrapper, "(">> \o origin \o <<xpub, suffix, ")", "#", "checksum">>

Origin == <<"[", "fingerprint/84h/1h/0h", "]">>

Descriptor(text) == JsonObject([desc |-> JsonString(text)])

\* What the node answers to listdescriptors for the wallet of that name: alice, bob
\* and carol have an external and an internal wpkh descriptor, dave has no
\* external one, erin's answer has no array of descriptors.
listdescriptors(wallet_name) ==
    CASE wallet_name \in {"alice", "bob", "carol"} ->
            JsonObject([wallet_name |-> JsonString(<<wallet_name>>),
                        descriptors |->
                            JsonArray(<<Descriptor(DescriptorText("wpkh", Origin,
                                                                  wallet_name, "/0/*")),
                                        Descriptor(DescriptorText("wpkh", Origin,
                                                                  wallet_name, "/1/*"))>>)])
      [] wallet_name = "dave" ->
            JsonObject([wallet_name |-> JsonString(<<wallet_name>>),
                        descriptors |->
                            JsonArray(<<Descriptor(DescriptorText("wpkh", Origin,
                                                                  wallet_name, "/1/*"))>>)])
      [] OTHER -> JsonObject([wallet_name |-> JsonString(<<wallet_name>>)])

\* for wallet_name in wallet_names { Wallet::new(wallet_name, config)?; }, from
\* element i on.  failing: the number of the wallet that cannot be opened, 0 if all
\* can.
RECURSIVE open_wallets(_, _, _, _)
open_wallets(wallet, wallet_names, i, failing) ==
    IF i >= Len(wallet_names) THEN [ret |-> Ok(None), node |-> wallet]
    ELSE LET opened == call_rpc(wallet, "Wallet::new", wallet_names[i + 1], failing = i + 1)
         IN  IF opened.ret.kind = "Err" THEN opened
             ELSE open_wallets(opened.node, wallet_names, i + 1, failing)

\* The loop over wallet_names.iter().enumerate(), from element i on.  failing: the
\* number of the wallet whose listdescriptors the node refuses, 0 if none.
RECURSIVE extract_all(_, _, _, _, _)
extract_all(wallet, wallet_names, i, xpubs, failing) ==
    IF i >= Len(wallet_names) THEN [ret |-> Ok(xpubs), node |-> wallet]
    ELSE LET listed == call_rpc(wallet, "listdescriptors", wallet_names[i + 1], failing = i + 1)
             descriptors == listdescriptors(wallet_names[i + 1])
             descriptors_array == as_array(Index(descriptors, "descriptors"))
         IN  IF listed.ret.kind = "Err" THEN listed
             ELSE IF descriptors_array = None
             THEN [ret |-> Err("Invalid descriptor format for wallet"), node |-> listed.node]
             ELSE LET extracted == extract_int_ext_xpubs(xpubs, descriptors_array[1], i)
                  IN  IF extracted.kind = "Err"
                      THEN [ret |-> extracted, node |-> listed.node]
                      ELSE extract_all(listed.node, wallet_names, i + 1, extracted.val,
                                       failing)

\* format!("wsh(sortedmulti({}, {}, {}, {}))", num_signers, xpubs[..1], xpubs[..2],
\* xpubs[..3])
sortedmulti(num_signers, xpubs, side) ==
    <<"wsh", "(", "sortedmulti", "(", num_signers>>
        \o xpubs[xpub_key(side, 1)] \o xpubs[xpub_key(side, 2)] \o xpubs[xpub_key(side, 3)]
        \o <<")", ")">>

\* The RPCs after the two descriptors are formatted, in the order of the code.
TailRpcs ==
    <<"getdescriptorinfo", "getdescriptorinfo", "createwallet", "importdescriptors",
      "Wallet::new", "getwalletinfo">>

\* The tail of MultisigWallet::new, from RPC k of TailRpcs on.  failing: the number
\* of the RPC the node refuses, 0 if none.
RECURSIVE create_multisig(_, _, _, _, _)
create_multisig(wallet, multisig_name, imported, k, failing) ==
    IF k > Len(TailRpcs) THEN [ret |-> Ok(None), node |-> wallet]
    ELSE LET arg == IF TailRpcs[k] = "importdescriptors" THEN imported
                    ELSE <<multisig_name>>
             served == call_rpc(wallet, TailRpcs[k], arg, failing = k)
         IN  IF served.ret.kind = "Err" THEN served
             ELSE create_multisig(served.node, multisig_name, imported, k + 1, failing)

\* Which RPC of a group fails, 0 if none: the group has `size` RPCs after the
\* `before` RPCs in front of it, and the call's RPC number `failing` fails.
failing_within(failing, before, size) ==
    IF before < failing /\ failing <= before + size THEN failing - before ELSE 0

\* Returns [ret, node].  failing: the number of the RPC of the call that the node
\* answers with an error, 0 if it answers all; the call ends at the first error.
MultisigWallet_new(wallet, wallet_names, nrequired, multisig_name, failing) ==
    IF Len(wallet_names) < nrequired
    THEN [ret |-> Err("More required signers than wallets"), node |-> wallet]
    ELSE
    LET wallets == Len(wallet_names)
        opened == open_wallets(wallet, wallet_names, 0,
                               failing_within(failing, 0, wallets))
    IN  IF opened.ret.kind = "Err" THEN opened
        ELSE
        LET extracted == extract_all(opened.node, wallet_names, 0, HashMap_new,
                                     failing_within(failing, wallets, wallets))
        IN  IF extracted.ret.kind = "Err" THEN extracted
            ELSE
            LET xpubs == extracted.ret.val
                num_signers == ToString(nrequired)
            IN  IF \E side \in {"external_xpub", "internal_xpub"} : \E number \in 1..3 :
                      xpub_key(side, number) \notin DOMAIN xpubs
                THEN [ret |-> [Panic EXCEPT !.err = "key not found in HashMap"],
                      node |-> extracted.node]                \* xpubs["external_xpub_1"]
                ELSE
                LET external_desc == sortedmulti(num_signers, xpubs, "external_xpub")
                    internal_desc == sortedmulti(num_signers, xpubs, "internal_xpub")
                    multisig_desc ==
                        <<[desc |-> external_desc \o <<"#", "checksum">>,
                           active |-> TRUE, internal |-> FALSE],
                          [desc |-> internal_desc \o <<"#", "checksum">>,
                           active |-> TRUE, internal |-> TRUE]>>
                    created == create_multisig(extracted.node, multisig_name,
                                               multisig_desc, 1,
                                               failing_within(failing, 2 * wallets,
                                                              Len(TailRpcs)))
                IN  IF created.ret.kind = "Err" THEN created
                    ELSE [ret |-> Ok([name |-> multisig_name,
                                      nrequired |-> nrequired,
                                      signers |-> wallet_names]),
                          node |-> created.node]

\* Inputs: the descriptors a wallet may export, and the wallets named to
\* MultisigWallet::new.
MaxDescriptors == 2

MaxWallets == 4

DescriptorValues ==
    {Descriptor(DescriptorText("wpkh", Origin, "xpub", "/0/*")),
     Descriptor(DescriptorText("wpkh", Origin, "xpub", "/1/*")),
     Descriptor(DescriptorText("wpkh", <<>>, "xpub", "/0/*")),
     Descriptor(DescriptorText("tr", Origin, "xpub", "/0/*")),
     JsonObject([desc |-> JsonNull]),
     JsonString(DescriptorText("wpkh", Origin, "xpub", "/0/*"))}

DescriptorArrays == UNION {[1..n -> DescriptorValues] : n \in 0..MaxDescriptors}

KeyMaps ==
    {HashMap_new,
     insert_xpub(insert_xpub(HashMap_new, xpub_key("internal_xpub", 1), <<"xpub", "/1/*">>),
                 xpub_key("external_xpub", 1), <<"xpub", "/0/*">>)}

WalletNames == {"alice", "bob", "carol", "dave", "erin"}

WalletNameLists == UNION {[1..n -> WalletNames] : n \in 0..MaxWallets}

InitMultisig ==
    /\ \/ /\ op = "extract_int_ext_xpubs"
          /\ input \in [xpubs : KeyMaps, descriptors_array : DescriptorArrays, i : 0..2]
       \/ /\ op = "MultisigWallet::new"
          /\ input \in [wallet_names : WalletNameLists, nrequired : 0..MaxWallets,
                        multisig_name : {"multisig"}]
    /\ pc = "call"
    /\ local = NoLocals
    /\ ret = NotRun
    /\ node = NoNode

Call_extract_int_ext_xpubs ==
    /\ op = "extract_int_ext_xpubs" /\ pc = "call"
    /\ ret' = extract_int_ext_xpubs(input.xpubs, input.descriptors_array, input.i)
    /\ pc' = "return"
    /\ UNCHANGED <<op, input, local, node>>

Call_MultisigWallet_new ==
    /\ op = "MultisigWallet::new" /\ pc = "call"
    /\ \E failing \in 0..(2 * Len(input.wallet_names) + Len(TailRpcs)) :
          LET made == MultisigWallet_new(node, input.wallet_names, input.nrequired,
                                         input.multisig_name, failing)
          IN  Return(made.ret, made.node)
    /\ UNCHANGED <<op, input, local>>

NextMultisig == Call_extract_int_ext_xpubs \/ Call_MultisigWallet_new

SpecMultisig == InitMultisig /\ [][NextMultisig]_vars



(***************************************************************************)
(* crates/ordinals/src/lib.rs: InscriptionData and its reveal script.  A   *)
(* Vec<u8> is a sequence of bytes; a script is the sequence of its         *)
(* instructions, each an opcode with the data it pushes.                   *)
(***************************************************************************)
MAX_SCRIPT_ELEMENT_SIZE == 520

\* crates/ordinals/src/utils/constants.rs
PROTOCOL_ID == <<111, 114, 100>>

BODY_TAG == <<>>

CONTENT_TYPE_TAG == <<1>>

POINTER_TAG == <<2>>

PARENT_TAG == <<3>>

METADATA_TAG == <<5>>

METAPROTOCOL_TAG == <<7>>

CONTENT_ENCODING_TAG == <<9>>

DELEGATE_TAG == <<11>>

RUNE_TAG == <<13>>

\* ScriptBuilder::new
ScriptBuilder_new == <<>>

\* ScriptBuilder::push_opcode
push_opcode(builder, opcode) == Append(builder, [opcode |-> opcode, data |-> <<>>])

\* ScriptBuilder::push_slice: the shortest push opcode that carries the length.
push_slice(builder, data) ==
    Append(builder,
           [opcode |-> IF Len(data) < 76 THEN "OP_PUSHBYTES"
                       ELSE IF Len(data) < 256 THEN "OP_PUSHDATA1"
                       ELSE IF Len(data) < 65536 THEN "OP_PUSHDATA2"
                       ELSE "OP_PUSHDATA4",
            data |-> data])

\* opcodes::OP_FALSE is OP_PUSHBYTES_0.
OP_FALSE == "OP_PUSHBYTES"

\* slice::chunks
RECURSIVE chunks(_, _)
chunks(value, chunk_size) ==
    IF value = <<>> THEN <<>>
    ELSE IF Len(value) <= chunk_size THEN <<value>>
    ELSE <<SubSeq(value, 1, chunk_size)>>
             \o chunks(SubSeq(value, chunk_size + 1, Len(value)), chunk_size)

is_chunked(tag) == tag = METADATA_TAG

\* The loop of append over the chunks: tag, chunk, tag, chunk, ..
RECURSIVE push_chunks(_, _, _)
push_chunks(builder, tag, chunk_list) ==
    IF chunk_list = <<>> THEN builder
    ELSE push_chunks(push_slice(push_slice(builder, tag), Head(chunk_list)), tag,
                     Tail(chunk_list))

\* InscriptionData::append; value is an Option.
append(tag, builder, value) ==
    IF value = None THEN builder
    ELSE IF is_chunked(tag)
    THEN push_chunks(builder, tag, chunks(value[1], MAX_SCRIPT_ELEMENT_SIZE))
    ELSE push_slice(push_slice(builder, tag), value[1])

\* InscriptionData::append_array
RECURSIVE append_array(_, _, _)
append_array(tag, builder, values) ==
    IF values = <<>> THEN builder
    ELSE append_array(tag, push_slice(push_slice(builder, tag), Head(values)),
                      Tail(values))

\* The loop over body.chunks(..): one push per chunk.
RECURSIVE push_body_chunks(_, _)
push_body_chunks(builder, chunk_list) ==
    IF chunk_list = <<>> THEN builder
    ELSE push_body_chunks(push_slice(builder, Head(chunk_list)), Tail(chunk_list))

\* The fields in the order append_reveal_script_to_builder appends them.
append_fields(self, builder) ==
    LET b1 == append(CONTENT_TYPE_TAG, builder, self.content_type)
        b2 == append(CONTENT_ENCODING_TAG, b1, self.content_encoding)
        b3 == append(METAPROTOCOL_TAG, b2, self.metaprotocol)
        b4 == append_array(PARENT_TAG, b3, self.parents)
        b5 == append(DELEGATE_TAG, b4, self.delegate)
        b6 == append(POINTER_TAG, b5, self.pointer)
        b7 == append(METADATA_TAG, b6, self.metadata)
    IN  append(RUNE_TAG, b7, self.rune)

\* InscriptionData::append_reveal_script_to_builder
append_reveal_script_to_builder(self, builder) ==
    LET opened == push_slice(push_opcode(push_opcode(builder, OP_FALSE), "OP_IF"),
                             PROTOCOL_ID)
        fields == append_fields(self, opened)
        with_body ==
            IF self.body # None
            THEN push_body_chunks(push_slice(fields, BODY_TAG),
                                  chunks(self.body[1], MAX_SCRIPT_ELEMENT_SIZE))
            ELSE fields
    IN  Ok(push_opcode(with_body, "OP_ENDIF"))

\* InscriptionData::reveal_script_as_scriptbuf
reveal_script_as_scriptbuf(self, builder) ==
    LET appended == append_reveal_script_to_builder(self, builder)
    IN  IF appended.kind # "Ok" THEN appended ELSE Ok(appended.val)

\* std::str::from_utf8(..).is_ok(): every byte starts a well-formed sequence or
\* continues one that a byte at most three places before it started.
IsContinuation(b) == b >= 128 /\ b <= 191

SequenceLength(b) ==
    IF b <= 127 THEN 1
    ELSE IF b >= 194 /\ b <= 223 THEN 2
    ELSE IF b >= 224 /\ b <= 239 THEN 3
    ELSE IF b >= 240 /\ b <= 244 THEN 4
    ELSE 0

SecondByteFits(lead, b) ==
    CASE lead = 224 -> b >= 160 /\ b <= 191
      [] lead = 237 -> b >= 128 /\ b <= 159
      [] lead = 240 -> b >= 144 /\ b <= 191
      [] lead = 244 -> b >= 128 /\ b <= 143
      [] OTHER -> IsContinuation(b)

StartsSequence(bytes, i) ==
    LET k == SequenceLength(bytes[i])
    IN  /\ k > 0
        /\ i + k - 1 <= Len(bytes)
        /\ k > 1 => SecondByteFits(bytes[i], bytes[i + 1])
        /\ \A j \in (i + 2)..(i + k - 1) : IsContinuation(bytes[j])

is_utf8(bytes) ==
    \A i \in 1..Len(bytes) :
        IF IsContinuation(bytes[i])
        THEN \E j \in 1..3 :
                /\ i - j >= 1
                /\ SequenceLength(bytes[i - j]) > j
                /\ StartsSequence(bytes, i - j)
                /\ \A m \in (i - j + 1)..(i - 1) : IsContinuation(bytes[m])
        ELSE StartsSequence(bytes, i)

\* InscriptionData::validate_content_type
validate_content_type(self) ==
    IF self.content_type # None /\ ~is_utf8(self.content_type[1])
    THEN Err("Invalid UTF-8 encoding")
    ELSE IF self.content_type # None
            /\ ~(\E i \in 1..Len(self.content_type[1]) : self.content_type[1][i] = 47)
    THEN Err("Invalid content type")
    ELSE Ok(self)

\* <InscriptionData as FromStr>::from_str: the JSON text either deserializes to a
\* value of the struct or does not.
from_str(data) ==
    IF data.json = "malformed" THEN Err("serde_json::Error") ELSE Ok(data.value)

\* InscriptionData::from_json_str
from_json_str(data) ==
    LET parsed == from_str(data)
    IN  IF parsed.kind # "Ok" THEN parsed ELSE validate_content_type(parsed.val)

\* The decoder of the envelope (spec, section 4.2): after the guard and the protocol
\* marker, pushes are read in tag/value pairs up to the body tag; what follows the
\* body tag up to OP_ENDIF is the body, its chunks concatenated in emission order.
\* A field of several chunks is the concatenation of its values in emission order.
IsPush(instruction) ==
    instruction.opcode \in {"OP_PUSHBYTES", "OP_PUSHDATA1", "OP_PUSHDATA2", "OP_PUSHDATA4"}

EmptyEnvelope ==
    [body |-> None, content_encoding |-> None, content_type |-> None,
     delegate |-> None, duplicate_field |-> FALSE, incomplete_field |-> FALSE,
     metadata |-> None, metaprotocol |-> None, parents |-> <<>>, pointer |-> None,
     rune |-> None, unrecognized_even_field |-> FALSE]

RECURSIVE decode_body(_, _, _)
decode_body(script, i, body) ==
    IF i > Len(script) THEN Err("no OP_ENDIF")
    ELSE IF script[i].opcode = "OP_ENDIF" THEN Ok(body)
    ELSE IF ~IsPush(script[i]) THEN Err("opcode in envelope")
    ELSE decode_body(script, i + 1, body \o script[i].data)

\* One tag/value pair taken into the envelope read so far.
decode_field(envelope, tag, value) ==
    LET once(field) ==
            IF envelope[field] = None
            THEN [envelope EXCEPT ![field] = Some(value)]
            ELSE [envelope EXCEPT !.duplicate_field = TRUE]
    IN  CASE tag = CONTENT_TYPE_TAG -> once("content_type")
          [] tag = CONTENT_ENCODING_TAG -> once("content_encoding")
          [] tag = METAPROTOCOL_TAG -> once("metaprotocol")
          [] tag = DELEGATE_TAG -> once("delegate")
          [] tag = POINTER_TAG -> once("pointer")
          [] tag = RUNE_TAG -> once("rune")
          [] tag = PARENT_TAG -> [envelope EXCEPT !.parents = Append(@, value)]
          [] tag = METADATA_TAG ->
                [envelope EXCEPT !.metadata =
                    IF @ = None THEN Some(value) ELSE Some(@[1] \o value)]
          [] OTHER ->
                IF Len(tag) > 0 /\ tag[1] % 2 = 0
                THEN [envelope EXCEPT !.unrecognized_even_field = TRUE]
                ELSE envelope

RECURSIVE decode_fields(_, _, _)
decode_fields(script, i, envelope) ==
    IF i > Len(script) THEN Err("no OP_ENDIF")
    ELSE IF script[i].opcode = "OP_ENDIF" THEN Ok(envelope)
    ELSE IF ~IsPush(script[i]) THEN Err("opcode in envelope")
    ELSE IF script[i].data = BODY_TAG
    THEN LET body == decode_body(script, i + 1, <<>>)
         IN  IF body.kind # "Ok" THEN body
             ELSE Ok([envelope EXCEPT !.body = Some(body.val)])
    ELSE IF i + 1 > Len(script) THEN Err("no OP_ENDIF")
    ELSE IF ~IsPush(script[i + 1])
    THEN IF script[i + 1].opcode = "OP_ENDIF"
         THEN Ok([envelope EXCEPT !.incomplete_field = TRUE])
         ELSE Err("opcode in envelope")
    ELSE decode_fields(script, i + 2,
                       decode_field(envelope, script[i].data, script[i + 1].data))

\* Where the envelope opens: OP_FALSE OP_IF and the protocol marker.
EnvelopeStarts(script) ==
    {i \in 1..(Len(script) - 2) :
        /\ script[i] = [opcode |-> OP_FALSE, data |-> <<>>]
        /\ script[i + 1] = [opcode |-> "OP_IF", data |-> <<>>]
        /\ IsPush(script[i + 2]) /\ script[i + 2].data = PROTOCOL_ID}

decode(script) ==
    IF EnvelopeStarts(script) = {} THEN Err("no envelope")
    ELSE LET start == CHOOSE i \in EnvelopeStarts(script) :
                          \A j \in EnvelopeStarts(script) : i <= j
         IN  decode_fields(script, start + 3, EmptyEnvelope)

\* Inputs: the JSON text handed to from_str / from_json_str, by the value it
\* deserializes to, and the builder handed to reveal_script_as_scriptbuf.
MaxParents == 2

ByteString(n) == [i \in 1..n |-> (i * 7) % 256]

Text(n) == [i \in 1..n |-> IF i = 2 THEN 47 ELSE 97]

ContentTypes == {None, Some(<<>>), Some(<<97, 47, 98>>), Some(<<97, 98>>)}

ParentLists == UNION {[1..n -> {<<1>>, <<2, 2>>}] : n \in 0..MaxParents}

Envelopes ==
    {[EmptyEnvelope EXCEPT !.content_type = f.content_type,
                           !.content_encoding = f.content_encoding,
                           !.metaprotocol = f.metaprotocol,
                           !.parents = f.parents,
                           !.delegate = f.delegate,
                           !.pointer = f.pointer,
                           !.metadata = f.metadata,
                           !.rune = f.rune,
                           !.body = f.body] :
        f \in [content_type : ContentTypes,
               content_encoding : {None, Some(<<98, 114>>)},
               metaprotocol : {None, Some(<<109>>)},
               parents : ParentLists,
               delegate : {None, Some(<<>>)},
               pointer : {None, Some(<<0>>)},
               metadata : {None, Some(<<>>),
                           Some(ByteString(MAX_SCRIPT_ELEMENT_SIZE + 1))},
               rune : {None, Some(<<82>>)},
               body : {None, Some(<<>>), Some(ByteString(3 * MAX_SCRIPT_ELEMENT_SIZE))}]}

\* A content type that is not UTF-8, and one field other than the body and the
\* metadata longer than a single push.
OversizeEnvelopes ==
    {[EmptyEnvelope EXCEPT !.content_type = Some(content_type), !.body = Some(<<1>>)] :
        content_type \in {<<255, 47>>, <<47, 195>>, Text(MAX_SCRIPT_ELEMENT_SIZE + 1)}}
    \cup
    {[EmptyEnvelope EXCEPT ![field] = Some(ByteString(MAX_SCRIPT_ELEMENT_SIZE + 1))] :
        field \in {"content_encoding", "metaprotocol", "delegate", "pointer", "rune"}}
    \cup {[EmptyEnvelope EXCEPT !.parents =
              <<<<1>>, ByteString(MAX_SCRIPT_ELEMENT_SIZE + 1)>>]}

Builders == {ScriptBuilder_new, push_opcode(ScriptBuilder_new, "OP_CHECKSIG")}

InitEnvelope ==
    /\ op = "InscriptionData"
    /\ pc = "call"
    /\ input \in [data : [json : {"well_formed"}, value : Envelopes \cup OversizeEnvelopes]
                             \cup [json : {"malformed"}, value : {EmptyEnvelope}],
                  builder : Builders]
    /\ local = NoLocals
    /\ ret = NotRun
    /\ node = NoNode

Constructed(made) ==
    /\ op = "InscriptionData" /\ pc = "call"
    /\ ret' = made
    /\ IF made.kind = "Ok"
       THEN local' = [inscription |-> made.val] /\ pc' = "constructed"
       ELSE local' = local /\ pc' = "return"
    /\ UNCHANGED <<op, input, node>>

Call_from_str == Constructed(from_str(input.data))

Call_from_json_str == Constructed(from_json_str(input.data))

Call_reveal_script_as_scriptbuf ==
    /\ op = "InscriptionData" /\ pc = "constructed"
    /\ ret' = reveal_script_as_scriptbuf(local.inscription, input.builder)
    /\ pc' = IF ret'.kind = "Ok" THEN "encoded" ELSE "return"
    /\ UNCHANGED <<op, input, local, node>>

Call_decode ==
    /\ op = "InscriptionData" /\ pc = "encoded"
    /\ local' = [inscription |-> local.inscription, script |-> ret.val]
    /\ ret' = decode(ret.val)
    /\ pc' = "decoded"
    /\ UNCHANGED <<op, input, node>>

NextEnvelope ==
    \/ Call_from_str
    \/ Call_from_json_str
    \/ Call_reveal_script_as_scriptbuf
    \/ Call_decode

SpecEnvelope == InitEnvelope /\ [][NextEnvelope]_vars

(***************************************************************************)
(* What the claims about the selection speak of.                           *)
(***************************************************************************)
Selected == op = "strat_handler" /\ pc = "return"

SelectedBy(strategy) == Selected /\ input.utxo_strategy = strategy

\* target + fee as a number, whatever the width of the code's integers.
Needed == input.target_amount + input.fee_amount

Indices == 1..Len(input.utxos)

\* The total of the input UTXOs at the positions I.
RECURSIVE TotalUpTo(_, _)
TotalUpTo(I, n) ==
    IF n = 0 THEN 0
    ELSE (IF n \in I THEN input.utxos[n].amount ELSE 0) + TotalUpTo(I, n - 1)

TotalOf(I) == TotalUpTo(I, Len(input.utxos))

Sufficient == {I \in SUBSET Indices : TotalOf(I) >= Needed}

ChangeOf(selection) == SumAmounts(selection) - Needed

Prefix(s, k) == SubSeq(s, 1, k)

\* What another strategy returns on the same input.
Other(strategy) ==
    strat_handler(input.utxos, input.target_amount, input.fee_amount, strategy)

\* a is consumed before b by the stable sort on amounts: by amount, and for equal
\* amounts by input position (txid is the position in the input list).
Before(a, b, descending) ==
    \/ (IF descending THEN a.amount > b.amount ELSE a.amount < b.amount)
    \/ a.amount = b.amount /\ a.txid < b.txid

\* selection is the first Len(selection) elements of the input in that order.
IsSortedPrefix(selection, descending) ==
    /\ \A i \in 1..Len(selection) : contains(input.utxos, selection[i])
    /\ \A i, j \in 1..Len(selection) :
          i < j => Before(selection[i], selection[j], descending)
    /\ \A k \in Indices :
          contains(selection, input.utxos[k])
             \/ \A i \in 1..Len(selection) :
                   Before(selection[i], input.utxos[k], descending)

\* C1: for each of the four strategies, a selection that is returned sums to at
\* least target_amount + fee_amount.
C1_SelectionCoversNeeded ==
    (Selected /\ input.utxo_strategy \in UTXOStrategy /\ ret.kind = "Ok")
        => SumAmounts(ret.val) >= input.target_amount + input.fee_amount

C1_Witness ==
    /\ SelectedBy("SmallestFirst")
    /\ ret.kind = "Ok"
    /\ Len(ret.val) = 3
    /\ input.fee_amount > 0
    /\ SumAmounts(Prefix(ret.val, 2)) = input.target_amount
    /\ SumAmounts(ret.val) < SumAmounts(input.utxos)

\* C2 as stated: for each of the four strategies, InsufficientUTXOs is returned only
\* if no subset of the input, the empty one included, reaches target + fee.
C2_FailsOnlyIfNoSubset ==
    (Selected /\ input.utxo_strategy \in UTXOStrategy /\ ret.kind = "Err")
        => Sufficient = {}

\* C2 as amended: InsufficientUTXOs is returned only if no non-empty subset of the
\* input reaches target + fee; for the empty list with target + fee = 0 only
\* BranchAndBound succeeds (with the empty selection) and the other three fail.
C2_FailsOnlyIfNoNonEmptySubset ==
    (Selected /\ input.utxo_strategy \in UTXOStrategy)
        => /\ ret.kind = "Err"
                => ret.err = "InsufficientUTXOs" /\ Sufficient \subseteq {{}}
           /\ (input.utxos = <<>> /\ Needed = 0)
                => IF input.utxo_strategy = "BranchAndBound"
                   THEN ret = Ok(<<>>)
                   ELSE ret = Err("InsufficientUTXOs")

C2_Witness ==
    /\ SelectedBy("BranchAndBound")
    /\ ret.kind = "Err"
    /\ Len(input.utxos) = 3
    /\ TotalOf(Indices) >= input.target_amount
    /\ TotalOf(Indices) < Needed

\* C3: when BranchAndBound returns a selection, its change is the least change of
\* all subsets of the input that reach target + fee, so it is at most the change of
\* what Fifo and LargestFirst return on the same input.
C3_BranchAndBoundLeastChange ==
    (SelectedBy("BranchAndBound") /\ ret.kind = "Ok")
        => /\ \E I \in Sufficient : TotalOf(I) - Needed = ChangeOf(ret.val)
           /\ \A I \in Sufficient : TotalOf(I) - Needed >= ChangeOf(ret.val)
           /\ \A strategy \in {"Fifo", "LargestFirst"} :
                 Other(strategy).kind = "Ok"
                    => ChangeOf(ret.val) <= ChangeOf(Other(strategy).val)

C3_Witness ==
    /\ SelectedBy("BranchAndBound")
    /\ ret.kind = "Ok"
    /\ Len(ret.val) = 2
    /\ Other("Fifo").kind = "Ok"
    /\ Other("LargestFirst").kind = "Ok"
    /\ ChangeOf(ret.val) < ChangeOf(Other("Fifo").val)
    /\ ChangeOf(ret.val) < ChangeOf(Other("LargestFirst").val)

\* C4 as stated: what Fifo returns is the shortest prefix of the input list whose
\* amounts sum to at least target + fee.
C4_FifoShortestPrefix ==
    (SelectedBy("Fifo") /\ ret.kind = "Ok")
        => \E k \in 0..Len(input.utxos) :
              /\ ret.val = Prefix(input.utxos, k)
              /\ SumAmounts(Prefix(input.utxos, k)) >= Needed
              /\ \A j \in 0..(k - 1) : SumAmounts(Prefix(input.utxos, j)) < Needed

\* C4 as amended: what Fifo returns is the shortest non-empty prefix of the input
\* list whose amounts sum to at least target + fee.
C4_FifoShortestNonEmptyPrefix ==
    (SelectedBy("Fifo") /\ ret.kind = "Ok")
        => \E k \in 1..Len(input.utxos) :
              /\ ret.val = Prefix(input.utxos, k)
              /\ SumAmounts(Prefix(input.utxos, k)) >= Needed
              /\ \A j \in 1..(k - 1) : SumAmounts(Prefix(input.utxos, j)) < Needed

\* [5000, 3000, 2000, 1000], target 4000, fee 200: [5000].
C4_Witness ==
    /\ SelectedBy("Fifo")
    /\ input.utxos = [i \in 1..4 |-> [txid |-> i, vout |-> 0,
                                      amount |-> <<5000, 3000, 2000, 1000>>[i]]]
    /\ input.target_amount = 4000
    /\ input.fee_amount = 200
    /\ ret = Ok(<<[txid |-> 1, vout |-> 0, amount |-> 5000]>>)

\* C5 as stated: what LargestFirst (SmallestFirst) returns is the shortest prefix
\* that reaches target + fee of the input stably sorted by amount, descending
\* (ascending).
C5_SortedShortestPrefix ==
    \A strategy \in {"LargestFirst", "SmallestFirst"} :
        (SelectedBy(strategy) /\ ret.kind = "Ok")
            => /\ IsSortedPrefix(ret.val, strategy = "LargestFirst")
               /\ SumAmounts(ret.val) >= Needed
               /\ \A j \in 0..(Len(ret.val) - 1) :
                     SumAmounts(Prefix(ret.val, j)) < Needed

\* C5 as amended: ... the shortest non-empty prefix that reaches target + fee ...
C5_SortedShortestNonEmptyPrefix ==
    \A strategy \in {"LargestFirst", "SmallestFirst"} :
        (SelectedBy(strategy) /\ ret.kind = "Ok")
            => /\ ret.val # <<>>
               /\ IsSortedPrefix(ret.val, strategy = "LargestFirst")
               /\ SumAmounts(ret.val) >= Needed
               /\ \A j \in 1..(Len(ret.val) - 1) :
                     SumAmounts(Prefix(ret.val, j)) < Needed

\* Equal amounts are consumed in input order: [1000, 2000, 1000, 2000], target 4000
\* gives the two 2000s, the one at position 2 first.
C5_Witness ==
    /\ SelectedBy("LargestFirst")
    /\ input.target_amount = 4000
    /\ input.fee_amount = 0
    /\ Len(input.utxos) = 4
    /\ \A i \in 1..4 : input.utxos[i].amount = <<1000, 2000, 1000, 2000>>[i]
    /\ ret = Ok(<<input.utxos[2], input.utxos[4]>>)

\* C6 as stated: when LargestFirst returns a selection, no subset of the input with
\* fewer elements reaches target + fee.
C6_LargestFirstFewestInputs ==
    (SelectedBy("LargestFirst") /\ ret.kind = "Ok")
        => \A I \in Sufficient : Cardinality(I) >= Len(ret.val)

\* C6 as amended: ... no non-empty subset of the input with fewer elements ...
C6_LargestFirstFewestNonEmpty ==
    (SelectedBy("LargestFirst") /\ ret.kind = "Ok")
        => \A I \in Sufficient \ {{}} : Cardinality(I) >= Len(ret.val)

C6_Witness ==
    /\ SelectedBy("LargestFirst")
    /\ ret.kind = "Ok"
    /\ Len(ret.val) = 2
    /\ Len(input.utxos) = 4
    /\ input.utxos[1].amount < input.utxos[4].amount

Qualifying(utxos, threshold) == {i \in 1..Len(utxos) : utxos[i].amount >= threshold}

FirstQualifying(utxos, threshold) ==
    CHOOSE i \in Qualifying(utxos, threshold) :
        \A j \in Qualifying(utxos, threshold) : i <= j

FlowNeeded == FlowAmount + COMMIT_FEE

\* The flow asked for the unspent outputs, got a non-empty list, and went on.
Funded == op \in Flows /\ "selected_utxos" \in DOMAIN local

FundingRefused ==
    /\ op \in Flows /\ pc = "return" /\ "commit_script" \in DOMAIN local
    /\ "selected_utxos" \notin DOMAIN local
    /\ node.unspent # <<>>
    /\ node.log[Len(node.log)].reply # "error"

CommitReturned == op = "build_commit_transaction" /\ pc = "return"

Requested(rpc) == {i \in 1..Len(node.log) : node.log[i].rpc = rpc}

\* C9: a transaction that build_commit_transaction returns has one input, the
\* funding UTXO's txid:vout, and two outputs: `amount` to the commitment script and
\* input_amount - amount - fee to the address the wallet issued in this call; the
\* three add up to the input amount, also when the change is 0.
C9_CommitShape ==
    (CommitReturned /\ ret.kind = "Ok")
        => LET tx == ret.val.tx
           IN  /\ Len(tx.input) = 1
               /\ tx.input[1].previous_output
                     = [txid |-> input.utxo.txid, vout |-> input.utxo.vout]
               /\ Len(tx.output) = 2
               /\ tx.output[1] = [value |-> input.amount,
                                  script_pubkey |-> input.commit_script]
               /\ tx.output[2].value
                     = input.utxo.amount - input.amount - input.fee_amount
               /\ input.utxo.amount
                     = tx.output[1].value + tx.output[2].value + input.fee_amount
               /\ Cardinality(Requested("getnewaddress")) = 1
               /\ \A i \in Requested("getnewaddress") :
                     /\ tx.output[2].script_pubkey = script_pubkey(node.log[i].reply)
                     /\ node.log[i].reply = Address(node.next_address - 1)

C9_Witness ==
    /\ CommitReturned
    /\ ret.kind = "Ok"
    /\ input.amount = 70000
    /\ input.fee_amount = 20000
    /\ input.utxo.amount = 90000
    /\ ret.val.tx.output[2].value = 0
    /\ ret.val.tx.output[2].script_pubkey = script_pubkey(Address(1))

\* C10: the call fails with the overflow error when amount + fee does not fit the
\* integer width, with the insufficient-funds error when amount + fee exceeds the
\* input amount, and in both cases without having asked the wallet for an address or
\* a signature; a transaction that is returned has no negative output.
C10_CommitFailsBeforeAsking ==
    CommitReturned
        => /\ input.amount + input.fee_amount > U64_MAX
                => ret = Err("Amount overflow") /\ node.log = <<>>
           /\ (/\ input.amount + input.fee_amount <= U64_MAX
               /\ input.amount + input.fee_amount > input.utxo.amount)
                => /\ ret = Err("Insufficient funds for commit transaction")
                   /\ node.log = <<>>
           /\ ret.kind \in {"Ok", "Err"}
           /\ ret.kind = "Ok"
                => \A i \in 1..Len(ret.val.tx.output) : ret.val.tx.output[i].value >= 0

\* amount + fee passes the integer width while its wrapped value would be covered.
C10_Witness ==
    /\ CommitReturned
    /\ input.amount = U64_MAX
    /\ input.fee_amount = 20000
    /\ input.utxo.amount = 70000
    /\ ret = Err("Amount overflow")
    /\ node.log = <<>>

(***************************************************************************)
(* What the claims about build_reveal_transaction speak of.                *)
(***************************************************************************)
RevealReturned == op = "build_reveal_transaction" /\ pc = "return"

InsufficientAmount == ret = Err("Insufficient amount for reveal transaction")

\* The total of the caller's output values as a number, and as the 64-bit sum.
TrueOutputTotal == SumValues(input.additional_outputs)

WrappedOutputTotal == TrueOutputTotal % (U64_MAX + 1)

\* C11: build_reveal_transaction fails with the insufficient-amount error exactly when
\* the mathematical total of the caller's output values plus the fee exceeds the
\* amount, also when the 64-bit sum of the values overflows.
C11_RevealFailsIffTotalExceeds ==
    RevealReturned =>
        (InsufficientAmount <=> TrueOutputTotal + input.fee_amount > input.amount)

\* C12 as stated: a returned reveal transaction has one input, the commit outpoint,
\* and exactly the caller's outputs.
C12_RevealOutputsAreCallers ==
    RevealReturned /\ ret.kind = "Ok" =>
        /\ Len(ret.val.input) = 1
        /\ ret.val.input[1].previous_output = input.commit_outpoint
        /\ ret.val.output = input.additional_outputs

\* C12, amended: a returned reveal transaction has one input, the commit outpoint;
\* its outputs are the caller's outputs, same elements in the same order, preceded by
\* one output the builder adds exactly when amount - fee - total is positive (total
\* the 64-bit sum of the caller's output values): that remainder, paid to the address
\* the wallet issued in this call.
C12_RevealOutputsAreCallersAfterRemainder ==
    RevealReturned /\ ret.kind = "Ok" =>
        LET remainder == input.amount - input.fee_amount - WrappedOutputTotal
            given == Len(input.additional_outputs)
            added == Len(ret.val.output) - given
        IN  /\ Len(ret.val.input) = 1
            /\ ret.val.input[1].previous_output = input.commit_outpoint
            /\ remainder >= 0
            /\ added = (IF remainder > 0 THEN 1 ELSE 0)
            /\ SubSeq(ret.val.output, added + 1, added + given) = input.additional_outputs
            /\ added = 1 =>
                  /\ ret.val.output[1].value = remainder
                  /\ Len(node.log) = 1
                  /\ node.log[1].rpc = "getnewaddress"
                  /\ ret.val.output[1].script_pubkey = script_pubkey(node.log[1].reply)
            /\ added = 0 => node.log = <<>>

\* Two outputs given, 546 and 0, and 49454 left of 70000 after the fee: three outputs.
C12_Witness ==
    /\ RevealReturned /\ ret.kind = "Ok"
    /\ input.amount = 70000 /\ input.fee_amount = 20000
    /\ Len(input.additional_outputs) = 2
    /\ input.additional_outputs[1].value = 546
    /\ input.additional_outputs[2].value = 0
    /\ Len(ret.val.output) = 3
    /\ ret.val.output[1].value = 49454

\* C13: the witness of the one input of a returned reveal transaction is
\* [signature, reveal script, control block]: a Schnorr signature by the untweaked
\* key pair given, the reveal script given, and the control block of the given
\* taproot spend info for that script at leaf version TapScript.
C13_RevealWitness ==
    RevealReturned /\ ret.kind = "Ok" =>
        LET witness == ret.val.input[1].witness
        IN  /\ Len(ret.val.input) = 1
            /\ Len(witness) = 3
            /\ DOMAIN witness[1] = {"schnorr_by", "message"}
            /\ witness[1].schnorr_by = input.key_pair
            /\ witness[2] = input.reveal_script
            /\ DOMAIN witness[3] = {"leaf_version", "internal_key", "merkle_branch"}
            /\ witness[3].leaf_version = "TapScript"
            /\ witness[3].internal_key = input.taproot_spend_info.internal_key
            /\ [script |-> input.reveal_script, leaf_version |-> "TapScript"]
                   \in input.taproot_spend_info.leaves
            /\ input.taproot_spend_info.merkle_root =
                   Some(TapLeafHash(witness[2], witness[3].leaf_version))

C13_Witness ==
    /\ RevealReturned /\ ret.kind = "Ok"
    /\ input.reveal_script = [reveal_script_of |-> "other"]
    /\ Len(ret.val.input[1].witness) = 3
    /\ ret.val.input[1].witness[2] = [reveal_script_of |-> "other"]

(***************************************************************************)
(* What the claims about the flows speak of.                               *)
(***************************************************************************)
Broadcasts == Requested("sendrawtransaction")

\* C14: in inscribe_ordinal the first transaction broadcast is the commit
\* transaction; the reveal transaction is broadcast only after the node accepted the
\* commit transaction and then mined 6 blocks, so never when either failed, and
\* nothing else is broadcast.
C14_RevealAfterCommitAndSixBlocks ==
    op = "inscribe_ordinal" =>
        \A i \in Broadcasts :
            IF \A j \in Broadcasts : i <= j
            THEN node.log[i].arg = local.commit_tx
            ELSE /\ node.log[i].arg = local.reveal_tx
                 /\ Cardinality(Broadcasts) = 2
                 /\ node.height >= 6
                 /\ \E j \in 1..(i - 1) : \E k \in (j + 1)..(i - 1) :
                       /\ node.log[j].rpc = "sendrawtransaction"
                       /\ node.log[j].arg = local.commit_tx
                       /\ node.log[j].reply = "accepted"
                       /\ node.log[k].rpc = "generatetoaddress"
                       /\ node.log[k].arg = 6
                       /\ node.log[k].reply = "ok"

\* The flow returned the pair: two broadcasts, six blocks between them.
C14_Witness ==
    /\ op = "inscribe_ordinal" /\ pc = "return" /\ ret.kind = "Ok"
    /\ Cardinality(Broadcasts) = 2
    /\ node.log[Len(node.log)].arg = local.reveal_tx
    /\ node.log[Len(node.log)].reply = "accepted"
    /\ node.height = 6

EtchReturned == op = "etch_rune" /\ pc = "return" /\ ret.kind = "Ok"

\* C19: the outputs of the reveal transaction of etch_rune are, in order, the
\* payment-back output (what is left of the postage, to a new address of the wallet),
\* the premine payout exactly when the etching has a premine, and last the zero-value
\* output whose script is the enciphered runestone.
C19_EtchRevealOutputs ==
    EtchReturned =>
        LET output == local.reveal_tx.output
            premine == input.etching.premine # None
            last == Len(output)
        IN  /\ last = (IF premine THEN 3 ELSE 2)
            /\ output[1].value = 70000 - 20000 - (IF premine THEN 546 ELSE 0)
            /\ node.log[Len(node.log)].rpc = "getnewaddress"
            /\ output[1].script_pubkey = script_pubkey(node.log[Len(node.log)].reply)
            /\ premine =>
                  /\ output[2].value = 546
                  /\ output[2].script_pubkey = new_p2tr(XOnlyPublicKey(local.key_pair), None)
            /\ output[last].value = 0
            /\ output[last].script_pubkey =
                  [encipher |-> [edicts |-> <<>>, etching |-> Some(input.etching),
                                 mint |-> None, pointer |-> None]]

C19_Witness ==
    /\ EtchReturned
    /\ input.etching.premine # None
    /\ Len(local.reveal_tx.output) = 3
    /\ local.reveal_tx.output[1].value = 49454
    /\ local.reveal_tx.output[2].value = 546
    /\ local.reveal_tx.output[3].value = 0

\* C20: the sequence of the reveal input of etch_rune (build_reveal_transaction with
\* is_rune = true) encodes the confirmation delay: it is not the sequence of the
\* reveal input of an inscription (is_rune = false).
C20_EtchSequenceEncodesDelay ==
    EtchReturned =>
        local.reveal_tx.input[1].sequence # reveal_sequence(FALSE)

(***************************************************************************)
(* What the claims about the reveal script of an inscription speak of.     *)
(***************************************************************************)
\* reveal_script_as_scriptbuf returned a script.
Encoded == op = "InscriptionData" /\ pc = "encoded"

Decoded == op = "InscriptionData" /\ pc = "decoded"

\* What the encoder put after what the builder held.
Emitted(script) == SubSeq(script, Len(input.builder) + 1, Len(script))

\* The data of the pushes between OP_IF and OP_ENDIF.
Pushed(script) ==
    [i \in 1..(Len(Emitted(script)) - 3) |-> Emitted(script)[i + 2].data]

\* The bytes of a value cut at every MAX_SCRIPT_ELEMENT_SIZE bytes; an empty value is
\* one empty piece.
Pieces(value) ==
    IF value = <<>> THEN <<<<>>>>
    ELSE [k \in 1..((Len(value) + MAX_SCRIPT_ELEMENT_SIZE - 1) \div MAX_SCRIPT_ELEMENT_SIZE) |->
             SubSeq(value, (k - 1) * MAX_SCRIPT_ELEMENT_SIZE + 1,
                    IF k * MAX_SCRIPT_ELEMENT_SIZE < Len(value)
                    THEN k * MAX_SCRIPT_ELEMENT_SIZE ELSE Len(value))]

\* tag, value of a present field; nothing of an absent one.
Pair(tag, field) == IF field = None THEN <<>> ELSE <<tag, field[1]>>

\* tag, piece, tag, piece, .. of a present field.
TaggedPieces(tag, field) ==
    IF field = None THEN <<>>
    ELSE [i \in 1..(2 * Len(Pieces(field[1]))) |->
             IF i % 2 = 1 THEN tag ELSE Pieces(field[1])[i \div 2]]

ParentPairs(parents) ==
    [i \in 1..(2 * Len(parents)) |-> IF i % 2 = 1 THEN PARENT_TAG ELSE parents[i \div 2]]

BodyPushes(body) ==
    IF body = None THEN <<>>
    ELSE IF body[1] = <<>> THEN <<BODY_TAG>>
    ELSE <<BODY_TAG>> \o Pieces(body[1])

\* C15: the script the encoder emits is OP_FALSE OP_IF .. OP_ENDIF, and between them
\* the pushes are the protocol marker and then every present field in the order
\* content-type, content-encoding, metaprotocol, the parents in list order, delegate,
\* pointer, metadata, rune, body; an absent field and an empty parent list push
\* nothing.
C15_EnvelopeFieldOrder ==
    Encoded =>
        LET script == ret.val
            emitted == Emitted(script)
            e == local.inscription
        IN  /\ SubSeq(script, 1, Len(input.builder)) = input.builder
            /\ Len(emitted) >= 4
            /\ emitted[1] = [opcode |-> "OP_PUSHBYTES", data |-> <<>>]
            /\ emitted[2] = [opcode |-> "OP_IF", data |-> <<>>]
            /\ emitted[Len(emitted)] = [opcode |-> "OP_ENDIF", data |-> <<>>]
            /\ \A i \in 3..(Len(emitted) - 1) : IsPush(emitted[i])
            /\ Pushed(script) =
                  <<PROTOCOL_ID>>
                  \o Pair(CONTENT_TYPE_TAG, e.content_type)
                  \o Pair(CONTENT_ENCODING_TAG, e.content_encoding)
                  \o Pair(METAPROTOCOL_TAG, e.metaprotocol)
                  \o ParentPairs(e.parents)
                  \o Pair(DELEGATE_TAG, e.delegate)
                  \o Pair(POINTER_TAG, e.pointer)
                  \o TaggedPieces(METADATA_TAG, e.metadata)
                  \o Pair(RUNE_TAG, e.rune)
                  \o BodyPushes(e.body)

\* The same, but for an envelope whose metadata is present and empty.
EnvelopeFieldOrderButEmptyMetadata ==
    Encoded /\ local.inscription.metadata # Some(<<>>) => C15_EnvelopeFieldOrder

\* The values of the fields that are not body or metadata.
SinglePushValues(e) ==
    {e[field][1] : field \in {f \in {"content_type", "content_encoding", "metaprotocol",
                                     "delegate", "pointer", "rune"} : e[f] # None}}
    \cup {e.parents[i] : i \in 1..Len(e.parents)}

WithinSinglePush(e) ==
    \A value \in SinglePushValues(e) : Len(value) <= MAX_SCRIPT_ELEMENT_SIZE

\* C16: a script is produced only for an envelope whose fields other than body and
\* metadata each fit a single push (encoding any other envelope fails with
\* FieldTooLarge), and no push of a produced script carries more than
\* MAX_SCRIPT_ELEMENT_SIZE bytes.
C16_OversizeFieldIsRefused ==
    Encoded =>
        /\ WithinSinglePush(local.inscription)
        /\ \A i \in 1..Len(Emitted(ret.val)) :
              Len(Emitted(ret.val)[i].data) <= MAX_SCRIPT_ELEMENT_SIZE

\* The part of C16 the code keeps: body and metadata are cut into pushes of at most
\* MAX_SCRIPT_ELEMENT_SIZE bytes, and every other field is one push whatever its
\* length.
ChunkedFieldsFitAPush ==
    Encoded =>
        \A i \in 1..Len(Emitted(ret.val)) :
            Len(Emitted(ret.val)[i].data) > MAX_SCRIPT_ELEMENT_SIZE
                => Emitted(ret.val)[i].data \in SinglePushValues(local.inscription)

\* The pushes of a script that follow a push of the tag, concatenated in order.
RECURSIVE ConcatAfterTag(_, _, _)
ConcatAfterTag(pushed, tag, i) ==
    IF i + 1 > Len(pushed) \/ pushed[i] = BODY_TAG THEN <<>>
    ELSE (IF pushed[i] = tag THEN pushed[i + 1] ELSE <<>>)
             \o ConcatAfterTag(pushed, tag, i + 2)

RECURSIVE ConcatFrom(_, _)
ConcatFrom(pushed, i) ==
    IF i > Len(pushed) THEN <<>> ELSE pushed[i] \o ConcatFrom(pushed, i + 1)

\* C17: decoding the script produced for an envelope whose fields fit a single push
\* gives back the envelope, field by field, present-but-empty fields included; and
\* the chunks emitted for a body or a metadata of any length, concatenated in
\* emission order, are the original bytes.
C17_EnvelopeRoundTrip ==
    Decoded =>
        LET e == local.inscription
            pushed == Pushed(local.script)
        IN  /\ WithinSinglePush(e) => ret = Ok(e)
            /\ e.metadata # None
                  => ConcatAfterTag(pushed, METADATA_TAG, 2) = e.metadata[1]
            /\ e.body # None
                  => \E i \in 2..Len(pushed) :
                        /\ i % 2 = 0
                        /\ pushed[i] = BODY_TAG
                        /\ \A j \in 2..(i - 1) : j % 2 = 0 => pushed[j] # BODY_TAG
                        /\ ConcatFrom(pushed, i + 1) = e.body[1]

\* The round trip of every envelope but those whose metadata is present and empty.
RoundTripButEmptyMetadata ==
    Decoded /\ local.inscription.metadata # Some(<<>>) => C17_EnvelopeRoundTrip

\* C18: no script is produced for an envelope whose content type is present and is
\* not UTF-8 text with a '/' in it (encoding it fails with InvalidContentType).
C18_InvalidContentTypeIsRefused ==
    Encoded =>
        \/ local.inscription.content_type = None
        \/ /\ is_utf8(local.inscription.content_type[1])
           /\ \E i \in 1..Len(local.inscription.content_type[1]) :
                 local.inscription.content_type[1][i] = 47

\* C23: coin selection never panics and never wraps, for every 64-bit target,
\* fee and UTXO amounts: strat_handler returns a selection or a typed failure.
C23_SelectionNeverPanics == Selected => ret.kind \in {"Ok", "Err"}

\* Every element of selection is one of the UTXOs of the input list.
FromInput(selection) ==
    \A i \in 1..Len(selection) : contains(input.utxos, selection[i])

\* No UTXO is in selection twice.
AtMostOnce(selection) ==
    \A i, j \in 1..Len(selection) : selection[i] = selection[j] => i = j

\* C28: for every strategy a selection that is returned holds UTXOs of the input
\* list only, each of them at most once, and the caller's list is what it was
\* before the call (the strategies sort a copy).
C28_SelectionFromInputOnce ==
    /\ [](Selected /\ ret.kind = "Ok" => FromInput(ret.val) /\ AtMostOnce(ret.val))
    /\ [][input' = input]_vars

\* A sorting strategy has returned two or more UTXOs in another order than the
\* caller's list has them.
C28_Witness ==
    /\ Selected /\ ret.kind = "Ok"
    /\ input.utxo_strategy \in {"LargestFirst", "SmallestFirst"}
    /\ Len(ret.val) >= 2
    /\ ret.val # Prefix(input.utxos, Len(ret.val))
    /\ \E i \in 1..Len(ret.val) : ret.val[i].txid > Len(ret.val)

\* C29: a reveal transaction that is returned conserves value, the total of its
\* outputs plus fee_amount is amount; a positive remainder is paid to an address
\* the wallet issues in this call, and a remainder of zero adds no output.
C29_RevealConservesValue ==
    RevealReturned /\ ret.kind = "Ok" =>
        LET remainder == input.amount - input.fee_amount - TrueOutputTotal
            added == Len(ret.val.output) - Len(input.additional_outputs)
        IN  /\ SumValues(ret.val.output) + input.fee_amount = input.amount
            /\ added = (IF remainder > 0 THEN 1 ELSE 0)
            /\ added = 1 =>
                  /\ ret.val.output[1].value = remainder
                  /\ node.log # <<>>
                  /\ node.log[Len(node.log)].rpc = "getnewaddress"
                  /\ ret.val.output[1].script_pubkey =
                         script_pubkey(node.log[Len(node.log)].reply)

\* The flow has built its reveal transaction.
RevealBuilt == op \in Flows /\ "reveal_tx" \in DOMAIN local

\* C25: in the inscription flow the reveal transaction has exactly one output, the
\* change-back output of value postage - reveal_fee, for every postage for which
\* inscribe_ordinal succeeds, a postage equal to the reveal fee included.
C25_InscribeRevealHasOneOutput ==
    InFlow("inscribe_ordinal", "return") /\ ret.kind = "Ok" =>
        /\ Len(ret.val.reveal_tx.output) = 1
        /\ ret.val.reveal_tx.output[1].value = input.postage - REVEAL_FEE

\* C27: in both flows the reveal transaction spends output 0 of the commit
\* transaction built in the same call; that output pays the amount to the commitment
\* script, the other one is the change; and the previous output the reveal's sighash
\* is computed over has the script and the value of that commit output.
C27_RevealSpendsCommitmentOutput ==
    RevealBuilt =>
        LET commit_tx == local.commit_tx
            reveal_tx == local.reveal_tx
            sighash == reveal_tx.input[1].witness[1].message
        IN  /\ Len(reveal_tx.input) = 1
            /\ reveal_tx.input[1].previous_output = [txid |-> txid(commit_tx), vout |-> 0]
            /\ Len(commit_tx.output) = 2
            /\ commit_tx.output[1] = [value |-> FlowAmount,
                                      script_pubkey |-> local.commit_script]
            /\ commit_tx.output[2].script_pubkey # local.commit_script
            /\ Len(sighash.prevouts) = 1
            /\ sighash.prevouts[1].script_pubkey = commit_tx.output[1].script_pubkey
            /\ sighash.prevouts[1].value = commit_tx.output[1].value

\* Both transactions of an inscription were built and broadcast, the commit
\* transaction with a change of its own.
C27_Witness ==
    /\ InFlow("inscribe_ordinal", "return") /\ ret.kind = "Ok"
    /\ RevealBuilt
    /\ local.commit_tx.output[2].value > 0
    /\ local.commit_tx.output[2].value # FlowAmount

\* C30: the inscription flow is all-or-nothing about broadcasting: when
\* inscribe_ordinal returns an error, the node has accepted neither the commit nor
\* the reveal transaction.
C30_ErrorMeansNothingBroadcast ==
    InFlow("inscribe_ordinal", "return") /\ ret.kind = "Err" =>
        \A i \in Broadcasts : node.log[i].reply # "accepted"

\* The locals of every call so far, the current one last, and those of them that
\* drew a key pair.
Calls == node.finished \o <<local>>

WithKey == {i \in 1..Len(Calls) : "key_pair" \in DOMAIN Calls[i]}

\* C24: the ephemeral key pair is single-use: each call of the inscription or
\* etching flow draws exactly one new key pair, the commitment and the signature of
\* the reveal transaction of that call are made with it, and no key pair is that of
\* two commit/reveal pairs.
C24_KeyPairIsSingleUse ==
    op \in Flows =>
        /\ node.next_key = Cardinality(WithKey)
        /\ \A i \in WithKey :
              LET call == Calls[i]
                  public_key == XOnlyPublicKey(call.key_pair)
              IN  /\ call.taproot_spend_info.internal_key = public_key
                  /\ call.commit_script =
                         new_p2tr(public_key, call.taproot_spend_info.merkle_root)
                  /\ "commit_tx" \in DOMAIN call =>
                         call.commit_tx.output[1].script_pubkey = call.commit_script
                  /\ "reveal_tx" \in DOMAIN call =>
                         call.reveal_tx.input[1].witness[1].schnorr_by = call.key_pair
        /\ \A i, j \in WithKey : i # j =>
              /\ Calls[i].key_pair # Calls[j].key_pair
              /\ Calls[i].commit_script # Calls[j].commit_script

\* Two calls, each of which built its commit/reveal pair.
C24_Witness ==
    /\ op \in Flows /\ pc = "return"
    /\ Len(Calls) = 2
    /\ \A i \in 1..2 : "reveal_tx" \in DOMAIN Calls[i]

(***************************************************************************)
(* What the claims about the multisig wallet speak of.                     *)
(***************************************************************************)
ExtractReturned == op = "extract_int_ext_xpubs" /\ pc = "return"

\* The text of a descriptor entry: its "desc" string, empty if it has none.
TextOf(entry) == unwrap_or_default(as_str(Index(entry, "desc")))

\* The entries of the participant's descriptors whose text has the suffix.
EntriesWith(suffix) ==
    {k \in 1..Len(input.descriptors_array) :
        str_contains(TextOf(input.descriptors_array[k]), <<suffix>>)}

NotFound ==
    {"External xpub not found for wallet", "Internal xpub not found for wallet"}

\* C21: extract_int_ext_xpubs fails with a descriptor-not-found error when the
\* participant's descriptors have no entry with '/0/*', and likewise when they have
\* none with '/1/*'; no key map comes back, so none that is extended.
C21_MissingDescriptorIsNotFound ==
    ExtractReturned /\ (EntriesWith("/0/*") = {} \/ EntriesWith("/1/*") = {}) =>
        /\ ret.kind = "Err"
        /\ ret.err \in NotFound
        /\ ret.val = None

\* The text with the origin path (up to the last ']') and the script wrapper's end
\* (from the first ')') taken off.
Stripped(text) == split_next(split_last(text, "]"), ")")

\* C22: for a participant i whose descriptors have an entry with '/0/*' and an entry
\* with '/1/*', extract_int_ext_xpubs succeeds, and the map it returns has the
\* stripped text of such an entry at external_xpub_{i+1} and at internal_xpub_{i+1}.
C22_ExtractMapsStrippedKeys ==
    ExtractReturned /\ EntriesWith("/0/*") # {} /\ EntriesWith("/1/*") # {} =>
        /\ ret.kind = "Ok"
        /\ \E k \in EntriesWith("/0/*") :
              ret.val[xpub_key("external_xpub", input.i + 1)] =
                  Stripped(TextOf(input.descriptors_array[k]))
        /\ \E k \in EntriesWith("/1/*") :
              ret.val[xpub_key("internal_xpub", input.i + 1)] =
                  Stripped(TextOf(input.descriptors_array[k]))

MultisigReturned == op = "MultisigWallet::new" /\ pc = "return"

\* C26: MultisigWallet::new with a number of wallets other than three, and nrequired
\* at most that number, ends in a typed failure: no panic, and no multisig wallet
\* made of three of the wallets it reports as signers.
C26_NotThreeWalletsIsRefused ==
    MultisigReturned /\ Len(input.wallet_names) # 3
                     /\ input.nrequired <= Len(input.wallet_names) =>
        ret.kind = "Err"

=============================================================================
